---- MODULE Spec2Model ----
(***************************************************************************)
(* The request pipeline of the apico HTTP client (src/src/core.ts,         *)
(* src/src/utils.ts) as a state machine.                                   *)
(*                                                                         *)
(* One client instance: its defaults and its three interceptor lists.      *)
(* A request is a chain of suspension points (every `await` of request()   *)
(* is a separate step).  Values that interceptors transform (config,       *)
(* response, error) carry a `tags` sequence: an interceptor that returns   *)
(* appends its own identity to the value it was given, so the order and    *)
(* the chaining of the calls can be read off the value.                    *)
(*                                                                         *)
(* Optional values (`undefined` / `null`) are sequences of length 0 or 1.  *)
(* Messages are sequences of words.                                        *)
(*                                                                         *)
(* Interceptors keep to the shape of their declared types (types.ts:59-61) *)
(* in that they return an object or throw an Error; an error interceptor   *)
(* may also return an object that is not an ApicoError.                    *)
(*                                                                         *)
(* Objects (configs, headers) are functions from their own keys; strings   *)
(* that the URL utilities take apart are sequences of characters.          *)
(*                                                                         *)
(* Specifications: Spec (requests, interceptors registered between them),  *)
(* SpecSend (requests with url, params, headers and payload), SpecRegistry *)
(* (registrations and removal capabilities), SpecRemoval (requests between *)
(* removals), SpecLive (registrations and removals while a request is      *)
(* suspended), SpecUtils (single calls of the utility functions),          *)
(* SpecVerbs (requests made through the verb shortcuts), SpecTwice (the    *)
(* same requestSafe call made twice), SpecConcurrent (two requests under   *)
(* way at once), SpecPerformance (the performance record), SpecStatus      *)
(* (response interceptors that change the status), SpecTimeout (absent,    *)
(* zero, negative and positive timeouts), SpecBody (methods, payloads and  *)
(* content-type headers), SpecDecode (single calls of the body decoding),  *)
(* SpecFrame (what a request leaves of the defaults, the lists and the     *)
(* caller's config), SpecInFlight (registrations and removals while fetch  *)
(* is pending), SpecInstances (two instances).                             *)
(*                                                                         *)
(* Granularity: a step runs from one await to the next.  The continuation  *)
(* of an awaited promise runs as a microtask of the turn that settled it,  *)
(* before any timer callback, so the code between the settling of fetch    *)
(* (or a throw) and the next await is part of the same step.               *)
(***************************************************************************)
EXTENDS Integers, Sequences, FiniteSets, TLC

\* ------------------------------------------------------------------ bounds
\* Total number of interceptor registrations made on the client.
MaxRegs == 2

\* the longest base and relative URL handed to combineURLs, in characters
MaxUrlLen == 3

\* the most entries of a params object handed to buildURL
MaxParams == 2

\* ------------------------------------------------------------ input sets
Reqs == {1, 2}                       \* request slots of the client
Callers == {1}                       \* slots used by the sequential caller
Fns == {"f", "g"}                    \* interceptor function identities
Methods == {<<>>, <<"POST">>}        \* config.method (absent or set)
Timeouts == {<<>>, <<50>>}           \* config.timeout (absent or set)
Datas == {"undefined", "object", "cyclic"}   \* config.data
Statuses == {200, 404, 0}            \* status of a transport response
BeforeBehaviours == {"return", "throw"}
ResponseBehaviours == {"return", "throw"}
ErrorBehaviours == {"return", "edit", "plain", "throw"}

None == <<>>
Some(v) == <<v>>

VARIABLES
  beforeRequestInterceptors,   \* core.ts:125
  responseInterceptors,        \* core.ts:126
  errorInterceptors,           \* core.ts:127
  nreg,                        \* number of registrations made so far
  rq,                          \* per request: the locals of request()/requestSafe()
  defaults,                    \* core.ts:116, the defaults of the instance
  reg,                         \* the registrations made and the capabilities called
  pure                         \* a call of a utility function: its arguments and result

vars == <<beforeRequestInterceptors, responseInterceptors, errorInterceptors, nreg, rq,
          defaults, reg, pure>>
lists == <<beforeRequestInterceptors, responseInterceptors, errorInterceptors>>

\* ------------------------------------------------------------- messages
Words(msg) == {msg[i] : i \in 1..Len(msg)}

\* String.prototype.includes on a message, for a single word
Includes(msg, word) == word \in Words(msg)

NetworkErrorMsg == <<"Network", "Error">>
AbortedMsg == <<"Request", "aborted">>
TimeoutMsg(t) == <<"Request", "timeout", "of", ToString(t) \o "ms", "exceeded">>
StatusMsg(s) == <<"Request", "failed", "with", "status", "code", ToString(s)>>

\* ---------------------------------------------------------------- configs
\* An object is a function from its own keys; a key may be present with the
\* value undefined (None).  `tags` is the mark of the pre-request interceptors.

\* obj[k], undefined when the key is absent
Field(obj, k) == IF k \in DOMAIN obj THEN obj[k] ELSE None

\* the headers of a config, {} when it has none (default parameter values of
\* mergeHeaders)
HeadersOf(cfg) == IF "headers" \in DOMAIN cfg THEN cfg["headers"] ELSE <<>>

\* the objects that have the key with one of the values, or do not have it
Optional(key, values) == {<<>>} \cup {key :> v : v \in values}

\* {...a, ...b}: the keys of both, b wins
Overlay(a, b) == b @@ a

\* a merge in which the default headers win
mergeHeaders_DefaultsWin(defaultHeaders, requestHeaders) ==
  Overlay(requestHeaders, defaultHeaders)

\* mergeHeaders(defaultHeaders, requestHeaders)
mergeHeaders(defaultHeaders, requestHeaders) == Overlay(defaultHeaders, requestHeaders)

\* who, besides the request, holds the object mergeHeaders returns: nobody,
\* it is a new object literal (utils.ts:65)
HeadersHolder_Defaults(defaultHeaders, requestHeaders) == "defaults"

HeadersHolder(defaultHeaders, requestHeaders) == "nobody"

\* a body step that writes the header into every object in reach
WrittenThrough_Always(holder, who, obj, cfg) == ("headers" :> HeadersOf(cfg)) @@ obj

\* a write into the headers object of a request reaches the defaults, or the
\* config of the caller, when they hold the same object
WrittenThrough(holder, who, obj, cfg) ==
  IF holder = who THEN ("headers" :> HeadersOf(cfg)) @@ obj ELSE obj

\* buildRequestConfig(config, defaults)
buildRequestConfig(config, dflt) ==
  ("tags" :> <<>>) @@
  ("headers" :> mergeHeaders(HeadersOf(dflt), HeadersOf(config))) @@
  Overlay(dflt, config)

\* the defaults createApicoInstance(defaultConfig) stores (core.ts:116-122)
AcceptHeaders == ("Accept" :> "application/json, text/plain, */*")

createApicoInstance(defaultConfig) ==
  Overlay([headers |-> AcceptHeaders, method |-> Some("GET")], defaultConfig)

\* ---------------------------------------------------------------- errors
\* a value of `new Error(message)` / DOMException / any thrown value
RawError(name, hasMessage, message) ==
  [isApicoError |-> FALSE, name |-> name, hasMessage |-> hasMessage,
   message |-> message, config |-> None, response |-> None,
   status |-> None, tags |-> <<>>]

\* status || response?.status
StatusOr(status, response) ==
  IF status # None /\ status[1] # 0 THEN status
  ELSE IF response # None THEN Some(response[1].status)
  ELSE None

\* createApicoError that forgets to attach the response
createApicoError_NoResponse(message, config, response, status) ==
  [isApicoError |-> TRUE, name |-> "Error", hasMessage |-> TRUE,
   message |-> message, config |-> Some(config), response |-> None,
   status |-> StatusOr(status, None), tags |-> <<>>]

createApicoError(message, config, response, status) ==
  [isApicoError |-> TRUE, name |-> "Error", hasMessage |-> TRUE,
   message |-> message, config |-> Some(config), response |-> response,
   status |-> StatusOr(status, response), tags |-> <<>>]

\* a catch block that has no default for an empty or absent message
MessageOr_NoDefault(err) == err.message

\* (err as Error).message || "Network Error"
MessageOr(err) ==
  IF err.hasMessage /\ err.message # <<>> THEN err.message ELSE NetworkErrorMsg

\* err instanceof DOMException && err.name === "AbortError"
IsAbortError(err) == err.name = "AbortError"

\* ------------------------------------------------------- transport values
\* a fetch Response: ok is set exactly for the 2xx statuses
TransportResponses ==
  [ok : BOOLEAN, status : Statuses, decodable : BOOLEAN]

\* the statuses for which a fetch Response has ok set
Is2xx(status) == status \in 200..299

FetchResponses == {r \in TransportResponses : r.ok = Is2xx(r.status)}

\* what fetch rejects with on a connectivity failure
TransportRejections ==
  { RawError("TypeError", TRUE, <<"Network", "down">>),
    RawError("TypeError", TRUE, <<>>),
    RawError("Object", FALSE, <<>>) }

\* what fetch rejects with once controller.abort(reason) was called: the
\* abort reason (current fetch standard) or a DOMException named AbortError
AbortRejections(t) ==
  { RawError("Error", TRUE, TimeoutMsg(t)),
    RawError("AbortError", TRUE, <<"The", "operation", "was", "aborted">>) }

\* -------------------------------------------------------------- utilities
\* a controller that takes zero for a timeout as well
HasTimer_Zero(timeout) == timeout # None /\ timeout[1] >= 0

\* createTimeoutController: a timer only for a positive timeout
HasTimer(timeout) == timeout # None /\ timeout[1] > 0

createTimeoutController(timeout) == IF HasTimer(timeout) THEN "pending" ELSE "none"

\* an exit path that leaves the timer armed
clearTimeout_Forgotten(timer) == timer

\* clearTimeout(timeoutId) guarded by timeoutId !== undefined
clearTimeout(timer) == IF timer = "pending" THEN "cleared" ELSE timer

\* String.prototype.toUpperCase on the method names that occur
toUpperCase(str) ==
  CASE str = "post" -> "POST"
    [] str = "get" -> "GET"
    [] OTHER -> str

\* (requestConfig.method || "GET").toUpperCase()
MethodOf(cfg) == IF Field(cfg, "method") = None THEN "GET" ELSE toUpperCase(cfg["method"][1])

\* config.data, "undefined" when the key is absent
DataOf(cfg) == IF "data" \in DOMAIN cfg THEN cfg["data"] ELSE "undefined"

\* a body step that does not look at the method
HasBody_AnyMethod(cfg) == DataOf(cfg) # "undefined"

HasBody(cfg) == MethodOf(cfg) \in {"POST", "PUT", "PATCH"} /\ DataOf(cfg) # "undefined"

\* prepareRequestBody throws when JSON.stringify does
BodyThrows(cfg) == HasBody(cfg) /\ DataOf(cfg) = "cyclic"

\* ------------------------------------------------------------------- URLs
\* A string is the sequence of its characters; a run of characters without a
\* slash, a question mark or a blank may stand as one element.
EndsWith(str, ch) == Len(str) > 0 /\ str[Len(str)] = ch

StartsWith(str, ch) == Len(str) > 0 /\ str[1] = ch

\* a join that keeps the trailing slash of the base
stripTrailingSlash_Keep(str) == str

stripTrailingSlash(str) ==
  IF EndsWith(str, "/") THEN SubSeq(str, 1, Len(str) - 1) ELSE str

addLeadingSlash(str) == IF StartsWith(str, "/") THEN str ELSE <<"/">> \o str

\* combineURLs(baseURL, relativeURL); the empty string is falsy
combineURLs(baseURL, relativeURL) ==
  IF relativeURL # <<>>
  THEN stripTrailingSlash(baseURL) \o addLeadingSlash(relativeURL)
  ELSE baseURL

\* A parameter value: undefined (None), a number or a string.
Num(n) == Some([kind |-> "number", n |-> n, s |-> <<>>])

Str(s) == Some([kind |-> "string", n |-> 0, s |-> s])

\* decimal digits of a natural number below 100
Digit(d) == CASE d = 0 -> "0" [] d = 1 -> "1" [] d = 2 -> "2" [] d = 3 -> "3"
              [] d = 4 -> "4" [] d = 5 -> "5" [] d = 6 -> "6" [] d = 7 -> "7"
              [] d = 8 -> "8" [] OTHER -> "9"

\* String(value)
String(v) ==
  IF v.kind = "number"
  THEN IF v.n < 10 THEN <<Digit(v.n)>> ELSE <<Digit(v.n \div 10), Digit(v.n % 10)>>
  ELSE v.s

\* the application/x-www-form-urlencoded serializer of URLSearchParams: a
\* blank becomes a plus sign, the reserved characters are percent-encoded
FormEncode(str) ==
  [i \in 1..Len(str) |->
     CASE str[i] = " " -> "+"
       [] str[i] = "/" -> "%2F"
       [] str[i] = "?" -> "%3F"
       [] OTHER -> str[i]]

\* searchParams.append for every entry whose value is not undefined
RECURSIVE Appended(_)
Appended(params) ==
  IF params = <<>> THEN <<>>
  ELSE IF Head(params).value # None
       THEN <<[key |-> Head(params).key, value |-> String(Head(params).value[1])]>>
            \o Appended(Tail(params))
       ELSE Appended(Tail(params))

\* searchParams.toString()
RECURSIVE Serialize(_)
Serialize(entries) ==
  IF entries = <<>> THEN <<>>
  ELSE FormEncode(Head(entries).key) \o <<"=">> \o FormEncode(Head(entries).value)
       \o (IF Len(entries) > 1 THEN <<"&">> \o Serialize(Tail(entries)) ELSE <<>>)

\* buildURL(url, params); params is the sequence of the own entries of the
\* object, in iteration order
buildURL(url, params) ==
  IF params = <<>> THEN url
  ELSE LET queryString == Serialize(Appended(params))
       IN IF queryString = <<>> THEN url
          ELSE IF Includes(url, "?")
               THEN url \o <<"&">> \o queryString
               ELSE url \o <<"?">> \o queryString

\* a request that hands the url of the config to fetch without the baseURL
AssembledURL_NoBase(cfg) ==
  LET url == IF Field(cfg, "url") = None THEN <<>> ELSE cfg["url"][1]
  IN IF Field(cfg, "params") = None THEN url
     ELSE buildURL(url, cfg["params"][1])

\* the URL request() hands to fetch (core.ts:141-150); undefined and the empty
\* string are falsy
AssembledURL(cfg) ==
  LET url == IF Field(cfg, "url") = None THEN <<>> ELSE cfg["url"][1]
      based == IF Field(cfg, "baseURL") = None \/ Field(cfg, "baseURL") = Some(<<>>)
               THEN url
               ELSE combineURLs(cfg["baseURL"][1], url)
  IN IF Field(cfg, "params") = None THEN based
     ELSE buildURL(based, cfg["params"][1])

\* ------------------------------------------------------------------- body
\* prepareRequestBody: null, the value itself, or its JSON text
prepareRequestBody(data) ==
  CASE data \in {"undefined", "null"} -> [kind |-> "null", of |-> "null"]
    [] data \in {"string", "formData", "blob"} -> [kind |-> "raw", of |-> data]
    [] OTHER -> [kind |-> "json", of |-> data]

\* getContentTypeHeader
getContentTypeHeader(data) ==
  CASE data \in {"undefined", "null", "formData"} -> None
    [] data = "blob" -> Some("application/octet-stream")
    [] data \in {"object", "cyclic"} -> Some("application/json")
    [] OTHER -> Some("text/plain")

\* !headers?.[key]: absent, or the empty string
Unset(headers, key) == key \notin DOMAIN headers \/ headers[key] = ""

\* a body step that leaves the headers as they are
WithContentType_Skip(cfg) == cfg

\* the config after the body step (core.ts:162-179): the Content-Type header
\* is written into requestConfig.headers
WithContentType(cfg) ==
  IF /\ HasBody(cfg)
     /\ Unset(HeadersOf(cfg), "Content-Type")
     /\ Unset(HeadersOf(cfg), "content-type")
     /\ getContentTypeHeader(DataOf(cfg)) # None
  THEN ("headers" :> (("Content-Type" :> getContentTypeHeader(DataOf(cfg))[1])
                       @@ HeadersOf(cfg))) @@ cfg
  ELSE cfg

\* the arguments of fetch (core.ts:182-195)
FetchCall(cfg) ==
  [url     |-> AssembledURL(cfg),
   method  |-> MethodOf(cfg),
   body    |-> IF HasBody(cfg) THEN prepareRequestBody(DataOf(cfg))
               ELSE [kind |-> "null", of |-> "null"],
   headers |-> HeadersOf(WithContentType(cfg))]

\* the body as the decode path reads it: null when decoding fails
DecodedBody(response) == IF response.decodable THEN Some("body") ELSE None

\* createApicoResponse: data is the decoded body, `by` the response
\* interceptors that have transformed it since
createApicoResponse(response, config) ==
  [data |-> [body |-> DecodedBody(response), by |-> <<>>],
   status |-> response.status, config |-> config]

\* ----------------------------------------------------------- interceptors
\* a loop that walks the list from its end
NextInterceptor_Reversed(list, i) == list[Len(list) - i]

\* the element the array iterator yields at position i (0-based)
NextInterceptor(list, i) == list[i + 1]

\* a loop that stops one element early
Exhausted_SkipLast(list, i) == i >= Len(list) - 1

\* the loop `for (const interceptor of list)` is exhausted
Exhausted(list, i) == i >= Len(list)

\* an interceptor that returns: the value it was given, marked by it
Returned(value, f) == [value EXCEPT !.tags = Append(@, f)]

\* a response interceptor that returns: the response with its data transformed
\* a pre-request interceptor that also points the request at another path
RewrittenPath == <<"/", "v2">>

Rewritten(value, f) == ("url" :> Some(RewrittenPath)) @@ Returned(value, f)

Transformed(resp, f) == [resp EXCEPT !.data.by = Append(@, f)]

\* an error interceptor that returns the error with a message of its own
Edited(err, f) == [err EXCEPT !.message = <<"edited">>, !.tags = Append(@, f)]

\* an error interceptor that returns something that is not an ApicoError
PlainValue(err, f) ==
  [RawError("Object", TRUE, <<"replaced">>) EXCEPT !.tags = Append(err.tags, f)]

\* ------------------------------------------------------------------ state
IdleReq ==
  [pc |-> "idle", safe |-> FALSE, given |-> None, holder |-> "nobody",
   requestConfig |-> None, idx |-> 0,
   cur |-> None, timer |-> "none", fetchCalls |-> 0, sent |-> None, call |-> None,
   prepared |-> None,
   response |-> None, apicoResponse |-> None, error |-> None,
   caught |-> None, returned |-> None, thrown |-> None, result |-> None,
   cause |-> "none", passes |-> 0, ethrew |-> FALSE]

\* The record of the registrations: the capabilities handed out, for each list
\* the registration that pushed each of its entries, the capabilities called
\* so far, the functions whose capability was called and that were not
\* registered since, and the last operation with the lists it found; for the
\* request in flight the entries the lists held when it started, those still
\* there, and the entries it invoked.
\* Nothing registered, no capability called:
NoReg == [caps |-> {}, before |-> <<>>, response |-> <<>>, error |-> <<>>,
          called |-> {}, removed |-> {}, last |-> None,
          start |-> <<>>, stay |-> {}, log |-> <<>>]

\* no utility function called
NoPure == [op |-> "none", args |-> <<>>, out |-> None]

\* a fresh instance without interceptors and without requests
Fresh(defaultConfig) ==
  /\ beforeRequestInterceptors = <<>>
  /\ responseInterceptors = <<>>
  /\ errorInterceptors = <<>>
  /\ nreg = 0
  /\ rq = [r \in Reqs |-> IdleReq]
  /\ defaults = createApicoInstance(defaultConfig)
  /\ reg = NoReg

\* the default instance: createApicoInstance() (index.ts:5)
Init ==
  /\ Fresh(<<>>)
  /\ pure = NoPure

Upd(r, rec) == rq' = [rq EXCEPT ![r] = rec]

\* ------------------------------------------------- interceptor management
\* list.push(interceptor)
Push(list, f) == Append(list, f)

\* a lookup that never finds the function
IndexOf_Absent(list, f) == 0

\* list.indexOf(interceptor), 0 when absent (1-based otherwise)
IndexOf(list, f) ==
  IF \E i \in 1..Len(list) : list[i] = f
  THEN CHOOSE i \in 1..Len(list) : list[i] = f /\ \A j \in 1..(i - 1) : list[j] # f
  ELSE 0

\* list.splice(index, 1)
Splice(list, i) == SubSeq(list, 1, i - 1) \o SubSeq(list, i + 1, Len(list))

\* the capability returned by a registration of f
RemoveFrom(list, f) == IF IndexOf(list, f) # 0 THEN Splice(list, IndexOf(list, f)) ELSE list

beforeRequest(f) ==
  /\ nreg < MaxRegs
  /\ beforeRequestInterceptors' = Push(beforeRequestInterceptors, f)
  /\ nreg' = nreg + 1
  /\ UNCHANGED <<responseInterceptors, errorInterceptors, rq, defaults>>

\* a client whose response list takes a registration only while no request
\* is running
onResponse_Deferred(f) ==
  /\ nreg < MaxRegs
  /\ responseInterceptors' = IF \A r \in Reqs : rq[r].pc = "idle"
                             THEN Push(responseInterceptors, f)
                             ELSE responseInterceptors
  /\ nreg' = nreg + 1
  /\ UNCHANGED <<beforeRequestInterceptors, errorInterceptors, rq, defaults>>

onResponse(f) ==
  /\ nreg < MaxRegs
  /\ responseInterceptors' = Push(responseInterceptors, f)
  /\ nreg' = nreg + 1
  /\ UNCHANGED <<beforeRequestInterceptors, errorInterceptors, rq, defaults>>

onError(f) ==
  /\ nreg < MaxRegs
  /\ errorInterceptors' = Push(errorInterceptors, f)
  /\ nreg' = nreg + 1
  /\ UNCHANGED <<beforeRequestInterceptors, responseInterceptors, rq, defaults>>

removeBeforeRequest(f) ==
  /\ nreg > 0
  /\ beforeRequestInterceptors' = RemoveFrom(beforeRequestInterceptors, f)
  /\ UNCHANGED <<responseInterceptors, errorInterceptors, nreg, rq, defaults>>

removeOnResponse(f) ==
  /\ nreg > 0
  /\ responseInterceptors' = RemoveFrom(responseInterceptors, f)
  /\ UNCHANGED <<beforeRequestInterceptors, errorInterceptors, nreg, rq, defaults>>

removeOnError(f) ==
  /\ nreg > 0
  /\ errorInterceptors' = RemoveFrom(errorInterceptors, f)
  /\ UNCHANGED <<beforeRequestInterceptors, responseInterceptors, nreg, rq, defaults>>

\* ----------------------------------------- registrations and capabilities
ListNames == {"before", "response", "error"}

ListOf(l) ==
  CASE l = "before" -> beforeRequestInterceptors
    [] l = "response" -> responseInterceptors
    [] OTHER -> errorInterceptors

\* the lists and their record as an operation finds them
Snapshot ==
  [fns |-> [l \in ListNames |-> ListOf(l)],
   ids |-> [l \in ListNames |-> reg[l]],
   called |-> reg.called]

\* a registration of f in list l; the capability it returns is kept
Register(l, f) ==
  /\ CASE l = "before" -> beforeRequest(f)
       [] l = "response" -> onResponse(f)
       [] OTHER -> onError(f)
  /\ LET cap == [list |-> l, fn |-> f, id |-> nreg + 1]
     IN reg' = [reg EXCEPT !.caps = @ \cup {cap},
                           ![l] = Append(@, cap.id),
                           !.removed = @ \ {[list |-> l, fn |-> f]},
                           !.last = Some([op |-> "register", cap |-> cap, was |-> Snapshot])]

\* a capability is called: the closure of core.ts:389-394, 399-404, 409-414
CallCap(cap) ==
  /\ CASE cap.list = "before" -> removeBeforeRequest(cap.fn)
       [] cap.list = "response" -> removeOnResponse(cap.fn)
       [] OTHER -> removeOnError(cap.fn)
  /\ LET index == IndexOf(ListOf(cap.list), cap.fn)
     IN reg' = [reg EXCEPT ![cap.list] = IF index # 0 THEN Splice(@, index) ELSE @,
                           !.stay = IF index # 0 THEN @ \ {reg[cap.list][index]} ELSE @,
                           !.called = @ \cup {cap.id},
                           !.removed = @ \cup {[list |-> cap.list, fn |-> cap.fn]},
                           !.last = Some([op |-> "remove", cap |-> cap, was |-> Snapshot])]

\* a request starts: the entries the lists hold now
Began ==
  [reg EXCEPT !.start = [l \in ListNames |-> reg[l]],
              !.stay = UNION {{reg[l][i] : i \in 1..Len(reg[l])} : l \in ListNames},
              !.log = <<>>]

\* the request invokes the entry at position i of list l
Logged(l, i) == [reg EXCEPT !.log = Append(@, [list |-> l, id |-> reg[l][i]])]

\* a request that arms the timer before the pre-request interceptors run
Start_Armed(r, config, safe) ==
  /\ rq[r].pc = "idle"
  /\ Upd(r, [IdleReq EXCEPT !.pc = "pre", !.safe = safe, !.given = Some(config),
                            !.timer = createTimeoutController(Field(config, "timeout")),
                            !.requestConfig = Some(buildRequestConfig(config, defaults))])
  /\ UNCHANGED <<lists, nreg, defaults>>

\* ------------------------------------------------------------ the pipeline
\* request(config) / requestSafe(config) is called: config merge (core.ts:134)
Start(r, config, safe) ==
  /\ rq[r].pc = "idle"
  /\ Upd(r, [IdleReq EXCEPT !.pc = "pre", !.safe = safe, !.given = Some(config),
                            !.holder = HeadersHolder(HeadersOf(defaults), HeadersOf(config)),
                            !.requestConfig = Some(buildRequestConfig(config, defaults))])
  /\ UNCHANGED <<lists, nreg, defaults>>

\* a pre-request interceptor is called with the current config (core.ts:137-138)
PreInvoke(r) ==
  /\ rq[r].pc = "pre"
  /\ ~Exhausted(beforeRequestInterceptors, rq[r].idx)
  /\ Upd(r, [rq[r] EXCEPT !.pc = "preAwait",
                          !.cur = Some(NextInterceptor(beforeRequestInterceptors, rq[r].idx)),
                          !.idx = @ + 1])
  /\ UNCHANGED <<lists, nreg, defaults>>

\* a request that goes on with the next pre-request interceptor after one threw
PreResume_GoesOn(r, b) ==
  /\ rq[r].pc = "preAwait"
  /\ CASE b = "return" ->
            Upd(r, [rq[r] EXCEPT !.pc = "pre", !.cur = None,
                    !.requestConfig = Some(Returned(rq[r].requestConfig[1], rq[r].cur[1]))])
       [] b = "rewrite" ->
            Upd(r, [rq[r] EXCEPT !.pc = "pre", !.cur = None,
                    !.requestConfig = Some(Rewritten(rq[r].requestConfig[1], rq[r].cur[1]))])
       [] OTHER ->
            Upd(r, [rq[r] EXCEPT !.pc = "pre", !.cur = None, !.cause = "pre"])
  /\ UNCHANGED <<lists, nreg, defaults>>

\* the awaited pre-request interceptor returns a config or throws; the loop is
\* outside the try block, so what it throws leaves request() as it is
PreResume(r, b) ==
  /\ rq[r].pc = "preAwait"
  /\ CASE b = "return" ->
            Upd(r, [rq[r] EXCEPT !.pc = "pre", !.cur = None,
                    !.requestConfig = Some(Returned(rq[r].requestConfig[1], rq[r].cur[1]))])
       [] b = "rewrite" ->
            Upd(r, [rq[r] EXCEPT !.pc = "pre", !.cur = None,
                    !.requestConfig = Some(Rewritten(rq[r].requestConfig[1], rq[r].cur[1]))])
       [] OTHER ->
            Upd(r, [rq[r] EXCEPT !.pc = "settled", !.cur = None, !.cause = "pre",
                    !.thrown = Some(RawError("Error", TRUE, <<"before", "failed">>))])
  /\ UNCHANGED <<lists, nreg, defaults>>

\* a catch block that rethrows what it caught instead of wrapping it
Classify_Rethrow(err, cfg) ==
  IF IsAbortError(err) THEN Some(createApicoError(AbortedMsg, cfg, None, None))
  ELSE None

\* which value the catch block hands to the error interceptors, if any
\* (core.ts:234-256)
Classify(err, cfg) ==
  IF IsAbortError(err) THEN Some(createApicoError(AbortedMsg, cfg, None, None))
  ELSE IF err.isApicoError THEN None
  ELSE Some(createApicoError(MessageOr(err), cfg, None, None))

\* the catch block of request() up to its first await (core.ts:228-256): it
\* runs in the same turn as the throw it catches, so no timer fires in between
CatchBlock(q, err) ==
  LET built == Classify(err, q.requestConfig[1])
      cleared == [q EXCEPT !.timer = clearTimeout(@), !.caught = Some(err), !.cur = None]
  IN IF built = None
     THEN [cleared EXCEPT !.pc = "settled", !.thrown = Some(err)]
     ELSE [cleared EXCEPT !.pc = "errCatch", !.idx = 0, !.error = built, !.passes = @ + 1]

\* URL assembly, timer set-up, body preparation and the call of fetch: one
\* synchronous stretch (core.ts:141-195)
Send(r) ==
  /\ rq[r].pc = "pre"
  /\ Exhausted(beforeRequestInterceptors, rq[r].idx)
  /\ LET cfg == rq[r].requestConfig[1]
         armed == [rq[r] EXCEPT !.timer = createTimeoutController(Field(cfg, "timeout"))]
     IN IF BodyThrows(cfg)
        THEN Upd(r, CatchBlock([armed EXCEPT !.cause = "body"],
                                RawError("TypeError", TRUE, <<"circular", "structure">>)))
        ELSE Upd(r, [armed EXCEPT !.pc = "fetch", !.fetchCalls = @ + 1,
                                  !.requestConfig = Some(WithContentType(cfg)),
                                  !.prepared = Some(cfg),
                                  !.sent = Some(WithContentType(cfg)),
                                  !.given = Some(WrittenThrough(rq[r].holder, "caller",
                                                                @[1], WithContentType(cfg))),
                                  !.call = Some(FetchCall(cfg))])
  /\ defaults' = IF BodyThrows(rq[r].requestConfig[1]) THEN defaults
                 ELSE WrittenThrough(rq[r].holder, "defaults", defaults,
                                     WithContentType(rq[r].requestConfig[1]))
  /\ UNCHANGED <<lists, nreg>>

\* fetch resolves; the continuation clears the timer (core.ts:182-200)
TransportResolve(r, resp) ==
  /\ rq[r].pc = "fetch"
  /\ Upd(r, [rq[r] EXCEPT !.pc = "decode", !.response = Some(resp),
                          !.timer = clearTimeout(@)])
  /\ UNCHANGED <<lists, nreg, defaults>>

\* a client that calls fetch again when fetch rejects
TransportReject_Retry(r, e) ==
  /\ rq[r].pc = "fetch"
  /\ rq[r].fetchCalls < 2
  /\ Upd(r, [rq[r] EXCEPT !.fetchCalls = @ + 1])
  /\ UNCHANGED <<lists, nreg, defaults>>

\* fetch rejects on its own
TransportReject(r, e) ==
  /\ rq[r].pc = "fetch"
  /\ Upd(r, CatchBlock([rq[r] EXCEPT !.cause = "reject"], e))
  /\ UNCHANGED <<lists, nreg, defaults>>

\* one controller for all requests: the abort rejects every pending fetch
TimerAbort_Shared(r, e) ==
  /\ rq[r].timer = "pending"
  /\ e \in AbortRejections(rq[r].requestConfig[1].timeout[1])
  /\ rq' = [q \in Reqs |->
              IF rq[q].pc = "fetch"
              THEN CatchBlock([rq[q] EXCEPT !.cause = "timeout",
                                 !.timer = IF q = r THEN "fired" ELSE @], e)
              ELSE IF q = r THEN [rq[q] EXCEPT !.timer = "fired"] ELSE rq[q]]
  /\ UNCHANGED <<lists, nreg, defaults>>

\* the timer callback runs controller.abort (utils.ts:129-131); a pending fetch
\* rejects at once
TimerAbort(r, e) ==
  /\ rq[r].timer = "pending"
  /\ e \in AbortRejections(rq[r].requestConfig[1].timeout[1])
  /\ IF rq[r].pc = "fetch"
     THEN Upd(r, CatchBlock([rq[r] EXCEPT !.timer = "fired", !.cause = "timeout"], e))
     ELSE Upd(r, [rq[r] EXCEPT !.timer = "fired"])
  /\ UNCHANGED <<lists, nreg, defaults>>

\* which of the two rejections follows depends on the platform
TimerFire(r) ==
  /\ rq[r].timer = "pending"
  /\ \E e \in AbortRejections(rq[r].requestConfig[1].timeout[1]) : TimerAbort(r, e)

\* createApicoResponse without the catch around the decode operations
Decode_Throws(r) ==
  /\ rq[r].pc = "decode"
  /\ IF rq[r].response[1].decodable
     THEN Upd(r, [rq[r] EXCEPT !.pc = "resp", !.idx = 0,
            !.apicoResponse = Some(createApicoResponse(rq[r].response[1], rq[r].requestConfig[1]))])
     ELSE Upd(r, CatchBlock([rq[r] EXCEPT !.cause = "reject"],
                            RawError("SyntaxError", TRUE, <<"Unexpected", "token">>)))
  /\ UNCHANGED <<lists, nreg, defaults>>

\* createApicoResponse awaits the body (core.ts:203)
Decode(r) ==
  /\ rq[r].pc = "decode"
  /\ Upd(r, [rq[r] EXCEPT !.pc = "resp", !.idx = 0,
       !.apicoResponse = Some(createApicoResponse(rq[r].response[1], rq[r].requestConfig[1]))])
  /\ UNCHANGED <<lists, nreg, defaults>>

\* a response interceptor is called with the current response (core.ts:206-207)
RespInvoke(r) ==
  /\ rq[r].pc = "resp"
  /\ ~Exhausted(responseInterceptors, rq[r].idx)
  /\ Upd(r, [rq[r] EXCEPT !.pc = "respAwait",
                          !.cur = Some(NextInterceptor(responseInterceptors, rq[r].idx)),
                          !.idx = @ + 1])
  /\ UNCHANGED <<lists, nreg, defaults>>

RespResume(r, b) ==
  /\ rq[r].pc = "respAwait"
  /\ IF b = "return"
     THEN Upd(r, [rq[r] EXCEPT !.pc = "resp", !.cur = None,
                    !.apicoResponse = Some(Transformed(rq[r].apicoResponse[1], rq[r].cur[1]))])
     ELSE Upd(r, CatchBlock([rq[r] EXCEPT !.cause = "respInt"],
                               RawError("Error", TRUE, <<"response", "failed">>)))
  /\ UNCHANGED <<lists, nreg, defaults>>

\* request() that returns the response as it was before the interceptors
ReturnValue_Normalized(q) ==
  Some(createApicoResponse(q.response[1], q.requestConfig[1]))

\* the value request() returns on success
ReturnValue(q) == q.apicoResponse

\* a check of the status of the response the interceptors returned
Succeeded_Transformed(q) == Is2xx(q.apicoResponse[1].status)

\* the success check: response.ok of the transport response (core.ts:211)
Succeeded(q) == q.response[1].ok

\* an error that attaches the response as it was before the interceptors
AttachedResponse_Raw(q) == Some(createApicoResponse(q.response[1], q.requestConfig[1]))

\* the response the HTTP-status error attaches (core.ts:212-217)
AttachedResponse(q) == q.apicoResponse

\* request() without the check of response.ok
StatusCheck_NoGate(r) ==
  /\ rq[r].pc = "resp"
  /\ Exhausted(responseInterceptors, rq[r].idx)
  /\ Upd(r, [rq[r] EXCEPT !.pc = "settled", !.returned = ReturnValue(rq[r])])
  /\ UNCHANGED <<lists, nreg, defaults>>

\* the status check after the response interceptors (core.ts:210-227)
StatusCheck(r) ==
  /\ rq[r].pc = "resp"
  /\ Exhausted(responseInterceptors, rq[r].idx)
  /\ IF ~Succeeded(rq[r])
     THEN Upd(r, [rq[r] EXCEPT !.pc = "errHttp", !.idx = 0, !.cause = "http",
                    !.passes = @ + 1,
                    !.error = Some(createApicoError(StatusMsg(rq[r].response[1].status),
                                      rq[r].requestConfig[1], AttachedResponse(rq[r]),
                                      Some(rq[r].response[1].status)))])
     ELSE Upd(r, [rq[r] EXCEPT !.pc = "settled", !.returned = ReturnValue(rq[r])])
  /\ UNCHANGED <<lists, nreg, defaults>>

\* an error interceptor is called with the current error
\* (core.ts:220-221, 240-241, 260-261)
ErrInvoke(r) ==
  /\ rq[r].pc \in {"errHttp", "errCatch"}
  /\ rq[r].cur = None
  /\ ~Exhausted(errorInterceptors, rq[r].idx)
  /\ Upd(r, [rq[r] EXCEPT !.cur = Some(NextInterceptor(errorInterceptors, rq[r].idx)),
                          !.idx = @ + 1])
  /\ UNCHANGED <<lists, nreg, defaults>>

\* the awaited error interceptor returns or throws: inside the try block the
\* throw is caught by the catch block of request(), inside the catch block it
\* leaves request()
ErrResume(r, b) ==
  /\ rq[r].pc \in {"errHttp", "errCatch"}
  /\ rq[r].cur # None
  /\ LET thrown == RawError("Error", TRUE, <<"handler", "failed">>)
     IN CASE b = "return" ->
               Upd(r, [rq[r] EXCEPT !.cur = None,
                         !.error = Some(Returned(rq[r].error[1], rq[r].cur[1]))])
          [] b = "edit" ->
               Upd(r, [rq[r] EXCEPT !.cur = None,
                         !.error = Some(Edited(rq[r].error[1], rq[r].cur[1]))])
          [] b = "plain" ->
               Upd(r, [rq[r] EXCEPT !.cur = None,
                         !.error = Some(PlainValue(rq[r].error[1], rq[r].cur[1]))])
          [] OTHER ->
               IF rq[r].pc = "errHttp"
               THEN Upd(r, CatchBlock([rq[r] EXCEPT !.ethrew = TRUE], thrown))
               ELSE Upd(r, [rq[r] EXCEPT !.cur = None, !.pc = "settled", !.ethrew = TRUE,
                              !.thrown = Some(thrown)])
  /\ UNCHANGED <<lists, nreg, defaults>>

\* a pipeline that lets the error interceptors swallow the failure: when the
\* last one returned something that is not a client error, it is returned
ErrThrow_Swallow(r) ==
  /\ rq[r].pc \in {"errHttp", "errCatch"}
  /\ rq[r].cur = None
  /\ Exhausted(errorInterceptors, rq[r].idx)
  /\ IF rq[r].error[1].isApicoError
     THEN Upd(r, [rq[r] EXCEPT !.pc = "settled", !.thrown = rq[r].error])
     ELSE Upd(r, [rq[r] EXCEPT !.pc = "settled", !.returned = rq[r].apicoResponse])
  /\ UNCHANGED <<lists, nreg, defaults>>

\* `throw error` / `throw processedError` after the loop (core.ts:224, 244, 264)
ErrThrow(r) ==
  /\ rq[r].pc \in {"errHttp", "errCatch"}
  /\ rq[r].cur = None
  /\ Exhausted(errorInterceptors, rq[r].idx)
  /\ IF rq[r].pc = "errHttp"
     THEN Upd(r, CatchBlock(rq[r], rq[r].error[1]))
     ELSE Upd(r, [rq[r] EXCEPT !.pc = "settled", !.thrown = rq[r].error])
  /\ UNCHANGED <<lists, nreg, defaults>>

\* requestSafe that loses the error of a failed request
SafePair_DropError(returned, thrown) == [response |-> returned, error |-> None]

\* the pair requestSafe builds from the outcome of request (core.ts:272-277)
SafePair(returned, thrown) ==
  IF thrown = None
  THEN [response |-> returned, error |-> None]
  ELSE [response |-> None, error |-> thrown]

\* the caller gets the outcome: request() settles, requestSafe() returns its pair
Return(r) ==
  /\ rq[r].pc = "settled"
  /\ Upd(r, [rq[r] EXCEPT !.pc = "done",
               !.result = IF rq[r].safe THEN Some(SafePair(rq[r].returned, rq[r].thrown))
                          ELSE None])
  /\ UNCHANGED <<lists, nreg, defaults>>

\* the request is over; its slot is free again
Reset(r) ==
  /\ rq[r].pc = "done"
  /\ Upd(r, IdleReq)
  /\ UNCHANGED <<lists, nreg, defaults>>

CallConfigs == [method : Methods, timeout : Timeouts, data : Datas]

\* request() up to the call of fetch; the config and the behaviour of the
\* pre-request interceptors are drawn from the given sets
Issue(r, configs, befores) ==
  \/ rq[r].pc = "idle" /\ \E c \in configs, s \in BOOLEAN : Start(r, c, s)
  \/ PreInvoke(r)
  \/ rq[r].pc = "preAwait" /\ \E b \in befores : PreResume(r, b)
  \/ Send(r)

\* the transport answers, the timer fires
Transport(r) ==
  \/ \E resp \in FetchResponses : TransportResolve(r, resp)
  \/ \E e \in TransportRejections : TransportReject(r, e)
  \/ TimerFire(r)

\* request() after fetch, as far as no response or error interceptor runs
Finish(r) ==
  \/ Decode(r)
  \/ StatusCheck(r)
  \/ ErrThrow(r)
  \/ Return(r)
  \/ Reset(r)

\* the response and the error interceptors
Intercept(r) ==
  \/ RespInvoke(r)
  \/ \E b \in ResponseBehaviours : RespResume(r, b)
  \/ ErrInvoke(r)
  \/ \E b \in ErrorBehaviours : ErrResume(r, b)

\* request r is suspended at an await, or not running: other code of the
\* program runs only then
Suspended(r) ==
  rq[r].pc \in {"idle", "preAwait", "fetch", "decode", "respAwait", "settled", "done"}

RequestStep(r) ==
  \/ Issue(r, CallConfigs, BeforeBehaviours)
  \/ Transport(r)
  \/ Finish(r)
  \/ Intercept(r)

Registry ==
  \E f \in Fns :
    \/ beforeRequest(f)
    \/ onResponse(f)
    \/ onError(f)
    \/ removeBeforeRequest(f)
    \/ removeOnResponse(f)
    \/ removeOnError(f)

\* no request of the client is in flight
Quiescent == \A r \in Reqs : rq[r].pc = "idle"

\* The caller registers and removes interceptors between requests only.
Next ==
  \/ (\E r \in Callers : RequestStep(r)) /\ UNCHANGED <<reg, pure>>
  \/ Quiescent /\ Registry /\ UNCHANGED <<reg, pure>>

Spec == Init /\ [][Next]_vars

\* ------------------------------------------------- the interceptor registry
\* Registrations and calls of the capabilities they returned, in any order.
NextRegistry ==
  \/ (\E l \in ListNames, f \in Fns : Register(l, f)) /\ UNCHANGED pure
  \/ (\E cap \in reg.caps : CallCap(cap)) /\ UNCHANGED pure

SpecRegistry == Init /\ [][NextRegistry]_vars

\* ------------------------------------------ requests between removals
\* Pre-request interceptors are registered and removed between requests; no
\* response or error interceptor is registered.
RemovalConfigs == {<<>>, [timeout |-> Some(50)]}

NextRemoval ==
  \/ (\E r \in Callers : Issue(r, RemovalConfigs, BeforeBehaviours)) /\ UNCHANGED <<reg, pure>>
  \/ (\E r \in Callers : Transport(r)) /\ UNCHANGED <<reg, pure>>
  \/ (\E r \in Callers : Finish(r)) /\ UNCHANGED <<reg, pure>>
  \/ Quiescent /\ (\E f \in Fns : Register("before", f)) /\ UNCHANGED pure
  \/ Quiescent /\ (\E cap \in reg.caps : CallCap(cap)) /\ UNCHANGED pure

SpecRemoval == Init /\ [][NextRemoval]_vars

\* ------------------------------- registrations while a request is in flight
\* Pre-request and response interceptors are registered and removed whenever
\* the request is suspended; no error interceptor is registered.
LiveLists == {"before", "response"}

NextLive ==
  \/ \E r \in Callers :
       /\ rq[r].pc = "idle"
       /\ \E c \in RemovalConfigs, s \in BOOLEAN : Start(r, c, s)
       /\ reg' = Began
       /\ UNCHANGED pure
  \/ \E r \in Callers :
       PreInvoke(r) /\ reg' = Logged("before", rq[r].idx + 1) /\ UNCHANGED pure
  \/ \E r \in Callers :
       (\E b \in BeforeBehaviours : PreResume(r, b)) /\ UNCHANGED <<reg, pure>>
  \/ (\E r \in Callers : Send(r)) /\ UNCHANGED <<reg, pure>>
  \/ (\E r \in Callers : Transport(r)) /\ UNCHANGED <<reg, pure>>
  \/ (\E r \in Callers : Finish(r)) /\ UNCHANGED <<reg, pure>>
  \/ \E r \in Callers :
       RespInvoke(r) /\ reg' = Logged("response", rq[r].idx + 1) /\ UNCHANGED pure
  \/ \E r \in Callers :
       (\E b \in ResponseBehaviours : RespResume(r, b)) /\ UNCHANGED <<reg, pure>>
  \/ /\ \A r \in Callers : Suspended(r)
     /\ \E l \in LiveLists, f \in Fns : Register(l, f)
     /\ UNCHANGED pure
  \/ /\ \A r \in Callers : Suspended(r)
     /\ \E cap \in reg.caps : CallCap(cap)
     /\ UNCHANGED pure

SpecLive == Init /\ [][NextLive]_vars

\* ------------------------------------------------- the utility functions
\* One call of combineURLs, buildURL or buildRequestConfig with arguments
\* drawn from the sets below.
UrlChars == {"a", "/"}

Strings(n) == UNION {[1..k -> UrlChars] : k \in 0..n}

QueryUrls == {<<"u">>, <<"u", "?", "k", "=", "1">>}

ParamKeys == {<<"q">>, <<"p">>, <<"x">>}

ParamValues == {None, Num(10), Str(<<"a">>), Str(<<"a", " ", "b">>)}

\* the objects with at most n entries: no key twice
ParamObjects(n) ==
  {ps \in UNION {[1..k -> [key : ParamKeys, value : ParamValues]] : k \in 0..n} :
     \A i, j \in 1..Len(ps) : ps[i].key = ps[j].key => i = j}

HeaderObjects ==
  {("Accept" :> "text/html"), ("X-Id" :> "1"), ("Accept" :> "*/*") @@ ("X-Id" :> "2")}

PartialConfigs ==
  {h @@ m @@ t :
     h \in Optional("headers", HeaderObjects),
     m \in Optional("method", {None, Some("POST")}),
     t \in Optional("timeout", {None, Some(50)})}

InitUtils ==
  /\ Fresh(<<>>)
  /\ \/ \E base \in Strings(MaxUrlLen), relative \in Strings(MaxUrlLen) :
          pure = [op |-> "combineURLs", args |-> <<base, relative>>, out |-> None]
     \/ \E url \in QueryUrls, params \in ParamObjects(MaxParams) :
          pure = [op |-> "buildURL", args |-> <<url, params>>, out |-> None]
     \/ \E config \in PartialConfigs, dflt \in PartialConfigs :
          pure = [op |-> "buildRequestConfig", args |-> <<config, dflt>>, out |-> None]

CallCombineURLs ==
  /\ pure.op = "combineURLs" /\ pure.out = None
  /\ pure' = [pure EXCEPT !.out = Some(combineURLs(pure.args[1], pure.args[2]))]
  /\ UNCHANGED <<lists, nreg, rq, defaults, reg>>

CallBuildURL ==
  /\ pure.op = "buildURL" /\ pure.out = None
  /\ pure' = [pure EXCEPT !.out = Some(buildURL(pure.args[1], pure.args[2]))]
  /\ UNCHANGED <<lists, nreg, rq, defaults, reg>>

CallBuildRequestConfig ==
  /\ pure.op = "buildRequestConfig" /\ pure.out = None
  /\ pure' = [pure EXCEPT !.out = Some(buildRequestConfig(pure.args[1], pure.args[2]))]
  /\ UNCHANGED <<lists, nreg, rq, defaults, reg>>

NextUtils == CallCombineURLs \/ CallBuildURL \/ CallBuildRequestConfig

SpecUtils == InitUtils /\ [][NextUtils]_vars

\* ------------------------------------------- requests with URLs and headers
\* A client with or without a baseURL and with interceptors already in place
\* issues requests that carry a url, params, headers and a payload.
BaseURL == <<"https:", "/", "/", "api.example.com">>

DefaultConfigs == {<<>>, [baseURL |-> Some(BaseURL)], [baseURL |-> Some(BaseURL \o <<"/">>)]}

SendUrls == {Some(<<"/", "users">>)}

SendParams ==
  {Some(<<[key |-> <<"q">>, value |-> Str(<<"a", " ", "b">>)],
          [key |-> <<"x">>, value |-> None],
          [key |-> <<"page">>, value |-> Num(10)]>>)}

SendDatas == {"object", "cyclic", "string", "formData"}

\* a payload goes with POST; GET carries one at most to show it is not sent
SendPayloads ==
  {<<>>, [data |-> "object"]} \cup
  {[method |-> Some("POST")] @@ d : d \in Optional("data", SendDatas)} \cup
  {[method |-> Some(m), data |-> "object"] : m \in {"PUT", "PATCH"}}

SendHeaders ==
  {("Content-Type" :> "text/csv"), ("content-type" :> "text/csv"), ("Content-Type" :> "")}

SendConfigs ==
  {u @@ p @@ h @@ d @@ t :
     u \in Optional("url", SendUrls), p \in Optional("params", SendParams),
     h \in Optional("headers", SendHeaders), d \in SendPayloads,
     t \in Optional("timeout", {Some(50)})}

SendBehaviours == {"return", "rewrite", "throw"}

\* one pre-request interceptor registered, or none
Installed == {<<>>, <<"f">>}

InitSend ==
  /\ beforeRequestInterceptors \in Installed
  /\ responseInterceptors = <<>>
  /\ errorInterceptors = <<>>
  /\ nreg = Len(beforeRequestInterceptors)
  /\ rq = [r \in Reqs |-> IdleReq]
  /\ \E dc \in DefaultConfigs : defaults = createApicoInstance(dc)
  /\ reg = NoReg
  /\ pure = NoPure

\* no response or error interceptor is registered, none runs
NextSend ==
  \/ (\E r \in Callers : Issue(r, SendConfigs, SendBehaviours)) /\ UNCHANGED <<reg, pure>>
  \/ (\E r \in Callers : Transport(r)) /\ UNCHANGED <<reg, pure>>
  \/ (\E r \in Callers : Finish(r)) /\ UNCHANGED <<reg, pure>>

SpecSend == InitSend /\ [][NextSend]_vars

\* ================================================================ claims
\* request() has settled: it has returned or thrown
Settled(q) == q.pc \in {"settled", "done"}

\* the transport completed with a non-ok response
NonOk(q) == q.response # None /\ ~q.response[1].ok

\* C1: requestSafe never throws: once a safe call is over it has produced a
\* pair in which exactly one of response and error is non-null, the pair is
\* {response, error: null} with the response request returned exactly when
\* request returned, and {response: null, error} with the error request threw
\* exactly when request threw.
C1_SafeNeverThrows ==
  \A r \in Reqs :
    (rq[r].pc = "done" /\ rq[r].safe) =>
      /\ rq[r].result # None
      /\ LET p == rq[r].result[1]
         IN /\ (p.response = None) # (p.error = None)
            /\ (rq[r].returned # None) <=> (p.error = None)
            /\ (rq[r].thrown # None) <=> (p.response = None)
            /\ p.error = None => p.response = rq[r].returned
            /\ p.response = None => p.error = rq[r].thrown

C1_Witness ==
  \E r \in Reqs :
    /\ rq[r].pc = "done" /\ rq[r].safe
    /\ rq[r].thrown # None
    /\ rq[r].result # None /\ rq[r].result[1].error = rq[r].thrown

\* C2: every failure that leaves request carries the discriminator and the
\* request's config, whatever stage produced it.
C2_Discriminated ==
  \A r \in Reqs :
    rq[r].thrown # None =>
      /\ rq[r].thrown[1].isApicoError
      /\ rq[r].thrown[1].config = rq[r].requestConfig

\* C3 as stated: after a non-ok transport response of status S request fails
\* with an error whose status is S and whose attached response holds the
\* decoded body of that transport response as data.
C3_Original ==
  \A r \in Reqs :
    (Settled(rq[r]) /\ NonOk(rq[r])) =>
      /\ rq[r].thrown # None
      /\ rq[r].thrown[1].status = Some(rq[r].response[1].status)
      /\ rq[r].thrown[1].response # None
      /\ rq[r].thrown[1].response[1].data =
           [body |-> DecodedBody(rq[r].response[1]), by |-> <<>>]

\* C3 amended: after a non-ok transport response of status S request always
\* fails; when no response interceptor throws, the error it builds has status
\* S and attaches the response returned by the last response interceptor,
\* whose data is the decoded body as transformed by the response interceptors
\* in registration order (the decoded body itself when none is registered);
\* that error is the one thrown when no error interceptor is registered.
C3_HttpError ==
  \A r \in Reqs :
    LET q == rq[r]
        built == (q.pc = "errHttp" /\ q.idx = 0 /\ q.cur = None)
        thrownAsBuilt == (Settled(q) /\ q.cause = "http" /\ errorInterceptors = <<>>)
        e == IF built THEN q.error ELSE q.thrown
    IN /\ (Settled(q) /\ NonOk(q)) => (q.thrown # None /\ q.returned = None)
       /\ (built \/ thrownAsBuilt) =>
            /\ e # None
            /\ e[1].isApicoError
            /\ e[1].status = Some(q.response[1].status)
            /\ e[1].response = q.apicoResponse
            /\ e[1].response[1].data =
                 [body |-> DecodedBody(q.response[1]), by |-> responseInterceptors]

C3_Witness ==
  \E r \in Reqs :
    /\ Settled(rq[r]) /\ NonOk(rq[r]) /\ rq[r].cause = "http"
    /\ rq[r].response[1].status = 404
    /\ errorInterceptors = <<>> /\ responseInterceptors # <<>>
    /\ rq[r].thrown # None /\ rq[r].thrown[1].status = Some(404)
    /\ rq[r].thrown[1].response # None
    /\ rq[r].thrown[1].response[1].data.by = responseInterceptors

\* the message the claims expect for a transport failure
ExpectedMessage(err) ==
  IF ~err.hasMessage \/ Len(err.message) = 0 THEN <<"Network", "Error">>
  ELSE err.message

\* the error-interceptor chain of the catch block is about to start
CatchBuilt(q) == q.pc = "errCatch" /\ q.idx = 0 /\ q.cur = None

\* C4 as stated: when the transport rejects on its own, request fails with a
\* discriminated client error that has the message of the underlying failure
\* ("Network Error" when it is empty or absent), no response and no status.
C4_Original ==
  \A r \in Reqs :
    (Settled(rq[r]) /\ rq[r].cause = "reject") =>
      /\ rq[r].thrown # None
      /\ rq[r].thrown[1].isApicoError
      /\ rq[r].thrown[1].message = ExpectedMessage(rq[r].caught[1])
      /\ rq[r].thrown[1].response = None
      /\ rq[r].thrown[1].status = None

\* C4 amended: when the transport rejects on its own, request always fails,
\* and the error it builds and hands to the error interceptors is a
\* discriminated client error with the message of the underlying failure
\* ("Network Error" when it is empty or absent), no response and no status;
\* that error is the one thrown when no error interceptor is registered.
C4_NetworkError ==
  \A r \in Reqs :
    LET q == rq[r]
        built == (CatchBuilt(q) /\ q.cause = "reject")
        thrownAsBuilt == (Settled(q) /\ q.cause = "reject" /\ errorInterceptors = <<>>)
        e == IF built THEN q.error ELSE q.thrown
    IN /\ (Settled(q) /\ q.cause = "reject") => (q.thrown # None /\ q.returned = None)
       /\ (built \/ thrownAsBuilt) =>
            /\ e # None
            /\ e[1].isApicoError
            /\ e[1].message = ExpectedMessage(q.caught[1])
            /\ e[1].response = None
            /\ e[1].status = None

C4_Witness ==
  \E r \in Reqs :
    /\ Settled(rq[r]) /\ rq[r].cause = "reject" /\ errorInterceptors = <<>>
    /\ ~rq[r].caught[1].hasMessage
    /\ rq[r].thrown # None /\ rq[r].thrown[1].message = <<"Network", "Error">>

\* C5: a request whose timeout fires while the transport call is pending
\* fails with a discriminated client error without response whose message
\* contains "timeout" (stated for a client without error interceptors, so
\* that the error is the one the pipeline built).
C5_TimeoutError ==
  \A r \in Reqs :
    (Settled(rq[r]) /\ rq[r].cause = "timeout" /\ errorInterceptors = <<>>) =>
      /\ rq[r].thrown # None
      /\ rq[r].response = None
      /\ rq[r].thrown[1].isApicoError
      /\ rq[r].thrown[1].response = None
      /\ Includes(rq[r].thrown[1].message, "timeout")

\* C6: the timer of a request is pending only while its transport call is in
\* flight: it is cancelled on every exit path, no timer is pending once request
\* has settled, and a timer that fired did so by aborting the pending transport
\* call, never after the transport call completed.
C6_TimerCleared ==
  \A r \in Reqs :
    /\ rq[r].timer = "pending" => rq[r].pc = "fetch"
    /\ Settled(rq[r]) => rq[r].timer # "pending"
    /\ rq[r].timer = "fired" => (rq[r].cause = "timeout" /\ rq[r].response = None)

C6_Witness ==
  \E r \in Reqs :
    /\ Settled(rq[r]) /\ rq[r].timer = "cleared"
    /\ rq[r].cause = "http"

\* C7: pre-request interceptors run in registration order, one at a time, each
\* on the config its predecessor returned, and the transport call is issued
\* only after the last one, with the config it returned.
C7_BeforeOrder ==
  \A r \in Reqs :
    LET q == rq[r]
    IN /\ q.pc = "preAwait" =>
            /\ q.idx \in 1..Len(beforeRequestInterceptors)
            /\ q.cur = Some(beforeRequestInterceptors[q.idx])
            /\ q.requestConfig[1].tags = SubSeq(beforeRequestInterceptors, 1, q.idx - 1)
            /\ q.fetchCalls = 0
       /\ q.sent # None =>
            /\ q.sent[1].tags = beforeRequestInterceptors
            /\ q.sent[1] = q.requestConfig[1]

C7_Witness ==
  \E r \in Reqs :
    /\ rq[r].sent # None
    /\ Len(beforeRequestInterceptors) = 2
    /\ beforeRequestInterceptors[1] # beforeRequestInterceptors[2]
    /\ rq[r].sent[1].tags = beforeRequestInterceptors

\* C8: response interceptors run in registration order on the normalized
\* response, each on the response its predecessor returned, and on success
\* request returns exactly what the last one returned (the normalized response
\* when none is registered).
C8_ResponseOrder ==
  \A r \in Reqs :
    LET q == rq[r]
    IN /\ q.pc = "respAwait" =>
            /\ q.idx \in 1..Len(responseInterceptors)
            /\ q.cur = Some(responseInterceptors[q.idx])
            /\ q.apicoResponse[1].data.by = SubSeq(responseInterceptors, 1, q.idx - 1)
       /\ q.returned # None =>
            /\ q.returned[1].data = [body |-> DecodedBody(q.response[1]),
                                     by |-> responseInterceptors]
            /\ q.returned[1].status = q.response[1].status
            /\ q.returned[1].config = q.requestConfig[1]

C8_Witness ==
  \E r \in Reqs :
    /\ rq[r].returned # None
    /\ Len(responseInterceptors) = 2
    /\ responseInterceptors[1] # responseInterceptors[2]
    /\ rq[r].returned[1].data.by = responseInterceptors

\* the three propagated failure kinds
Propagated(q) == q.cause \in {"http", "reject", "timeout"}

PreDone(q) == q.pc \notin {"idle", "pre", "preAwait"} /\ q.cause # "pre"

\* what the transport call of q carries
Carries(q) ==
  q.call # None =>
    /\ q.call[1].method = MethodOf(q.requestConfig[1])
    /\ q.call[1].url = AssembledURL(q.requestConfig[1])

\* C11 as stated: a request calls fetch at most once, and exactly once as soon
\* as every pre-request interceptor has completed; the call carries the
\* configured method and the assembled URL.
C11_Original ==
  \A r \in Callers :
    /\ rq[r].fetchCalls <= 1
    /\ PreDone(rq[r]) => rq[r].fetchCalls = 1
    /\ Carries(rq[r])

\* C11: a request calls fetch at most once; it calls it exactly once when every
\* pre-request interceptor has completed and the body could be prepared, and
\* not at all when preparing the body threw; the call carries the configured
\* method and the assembled URL; a rejected or timed-out call is not repeated.
C11_OneCall ==
  \A r \in Callers :
    /\ rq[r].fetchCalls <= 1
    /\ PreDone(rq[r]) => rq[r].fetchCalls = (IF rq[r].cause = "body" THEN 0 ELSE 1)
    /\ ~PreDone(rq[r]) => rq[r].fetchCalls = 0
    /\ rq[r].fetchCalls = 1 <=> rq[r].call # None
    /\ Carries(rq[r])

\* a POST that timed out has settled after a single call of fetch
C11_Witness ==
  \E r \in Callers :
    /\ rq[r].pc = "settled"
    /\ rq[r].cause = "timeout"
    /\ rq[r].fetchCalls = 1
    /\ rq[r].call[1].method = "POST"
    /\ rq[r].call[1].url = BaseURL \o <<"/", "users">>

\* request q has invoked the pre-request interceptor f
Invoked(q, f) ==
  /\ q.requestConfig # None
  /\ \/ f \in Words(q.requestConfig[1].tags)
     \/ q.pc = "preAwait" /\ q.cur = Some(f)

\* every pre-request interceptor in the list has marked the call of q
Applied(q) ==
  q.call # None =>
    \A i \in 1..Len(beforeRequestInterceptors) :
      beforeRequestInterceptors[i] \in Words(q.sent[1].tags)

\* a capability of the pre-request interceptor f was called and f was not
\* registered since
Removed(f) == [list |-> "before", fn |-> f] \in reg.removed

\* the capability of every registration of the pre-request interceptor f was
\* called
AllCalled(f) ==
  \A cap \in reg.caps : (cap.list = "before" /\ cap.fn = f) => cap.id \in reg.called

\* C12 as stated: the transport call of a request carries the mark of every
\* pre-request interceptor registered when it started, and a request started
\* after the remove capability of an interceptor was called does not invoke it.
C12_Original ==
  \A r \in Callers :
    /\ Applied(rq[r])
    /\ \A f \in Fns : Removed(f) => ~Invoked(rq[r], f)

\* C12: the transport call of a request carries the mark of every pre-request
\* interceptor registered when it started; a request started after the remove
\* capability of every registration of a function was called does not invoke
\* that function.
C12_RemovedNotInvoked ==
  \A r \in Callers :
    /\ Applied(rq[r])
    /\ \A f \in Fns : (Removed(f) /\ AllCalled(f)) => ~Invoked(rq[r], f)

\* f and g were registered, the capability of f was called, and the next
\* request reached the transport with the mark of g alone
C12_Witness ==
  \E r \in Callers :
    /\ rq[r].call # None
    /\ Removed("f") /\ AllCalled("f")
    /\ rq[r].sent[1].tags = <<"g">>

\* the function each registration was made with
FnOf(id) == (CHOOSE cap \in reg.caps : cap.id = id).fn

\* the entries of a list without the one pushed by registration id
Without(ids, id) == SelectSeq(ids, LAMBDA k : k # id)

\* the functions of a sequence of entries
FnsOf(ids) == [i \in 1..Len(ids) |-> FnOf(ids[i])]

\* the lists other than l are as the last operation found them
OthersKept(l, was) == \A m \in ListNames \ {l} : ListOf(m) = was.fns[m] /\ reg[m] = was.ids[m]

\* C13: a registration appends its function at the end of its own list and
\* leaves the other lists alone; a call of the capability it returned removes
\* the entry this registration pushed and no other: the remaining entries of
\* the list, another registration of the same function included, stay in their
\* order, and the other two lists are unchanged.
C13_ExactEntry ==
  reg.last # None =>
    LET op == reg.last[1]
        l == op.cap.list
    IN /\ OthersKept(l, op.was)
       /\ IF op.op = "register"
          THEN /\ ListOf(l) = Append(op.was.fns[l], op.cap.fn)
               /\ reg[l] = Append(op.was.ids[l], op.cap.id)
          ELSE /\ reg[l] = Without(op.was.ids[l], op.cap.id)
               /\ ListOf(l) = FnsOf(Without(op.was.ids[l], op.cap.id))

\* C14: a call of a capability that was called before, or whose function is
\* not in its list, leaves the three lists as they were.
C14_Idempotent ==
  reg.last # None =>
    LET op == reg.last[1]
    IN (/\ op.op = "remove"
        /\ \/ op.cap.id \in op.was.called
           \/ op.cap.fn \notin Words(op.was.fns[op.cap.list]))
       => \A l \in ListNames : ListOf(l) = op.was.fns[l]

\* the entries of list l the request in flight has invoked, in the order of
\* their invocation
LogOf(l) ==
  LET own == SelectSeq(reg.log, LAMBDA e : e.list = l)
  IN [i \in 1..Len(own) |-> own[i].id]

\* the entries of list l that were registered when the request started and
\* still are, in registration order
Stayed(l) == SelectSeq(reg.start[l], LAMBDA k : k \in reg.stay)

\* the loop over the response interceptors of q has run to its end
RespDone(q) ==
  q.apicoResponse # None /\ q.pc \notin {"resp", "respAwait"} /\ q.cause # "respInt"

\* C15: whatever is registered or removed while a request is suspended, once
\* the loop over a list has run to its end the request has invoked every
\* interceptor that stayed registered exactly once and in registration order.
C15_LiveSafe ==
  \A r \in Callers :
    /\ PreDone(rq[r]) =>
         SelectSeq(LogOf("before"), LAMBDA k : k \in reg.stay) = Stayed("before")
    /\ RespDone(rq[r]) =>
         SelectSeq(LogOf("response"), LAMBDA k : k \in reg.stay) = Stayed("response")

\* the fields of a config other than its headers and the mark of the
\* interceptors
Scalars(cfg) == DOMAIN cfg \ {"headers", "tags"}

\* C16: the merged config has the headers of both configs, a key of the
\* call-specific headers with the call-specific value and any other default key
\* with its default value; every other field has the call-specific value when
\* the call-specific config has the field and the default one otherwise.
C16_Merged ==
  (pure.op = "buildRequestConfig" /\ pure.out # None) =>
    LET config == pure.args[1]
        dflt == pure.args[2]
        merged == pure.out[1]
    IN /\ DOMAIN merged["headers"] = DOMAIN HeadersOf(config) \cup DOMAIN HeadersOf(dflt)
       /\ \A k \in DOMAIN HeadersOf(config) : merged["headers"][k] = config["headers"][k]
       /\ \A k \in DOMAIN HeadersOf(dflt) \ DOMAIN HeadersOf(config) :
            merged["headers"][k] = dflt["headers"][k]
       /\ Scalars(merged) = Scalars(config) \cup Scalars(dflt)
       /\ \A k \in Scalars(config) : merged[k] = config[k]
       /\ \A k \in Scalars(dflt) \ Scalars(config) : merged[k] = dflt[k]

\* a call that overrides Accept and the method, and keeps X-Id and the timeout
\* of the defaults
C16_Witness ==
  /\ pure.op = "buildRequestConfig" /\ pure.out # None
  /\ pure.args[1] = [headers |-> ("Accept" :> "text/html"), method |-> Some("POST")]
  /\ pure.args[2] = [headers |-> (("Accept" :> "*/*") @@ ("X-Id" :> "2")),
                     method |-> None, timeout |-> Some(50)]
  /\ pure.out[1]["headers"] = (("Accept" :> "text/html") @@ ("X-Id" :> "2"))
  /\ pure.out[1]["method"] = Some("POST")
  /\ pure.out[1]["timeout"] = Some(50)

\* str without its trailing slashes, and without its leading slashes
RECURSIVE TrimEnd(_)
TrimEnd(str) == IF EndsWith(str, "/") THEN TrimEnd(SubSeq(str, 1, Len(str) - 1)) ELSE str

RECURSIVE TrimStart(_)
TrimStart(str) == IF StartsWith(str, "/") THEN TrimStart(Tail(str)) ELSE str

\* out is base and relative joined by a single slash: nothing but one slash
\* stands between what base holds before its trailing slashes and what relative
\* holds after its leading slashes
Joined(base, relative, out) ==
  \E j \in 1..Len(out) :
    /\ out[j] = "/"
    /\ SubSeq(out, 1, j - 1) = TrimEnd(base)
    /\ SubSeq(out, j + 1, Len(out)) = TrimStart(relative)

\* str ends, or begins, with two slashes
TwoTrailing(str) == Len(str) >= 2 /\ str[Len(str)] = "/" /\ str[Len(str) - 1] = "/"

TwoLeading(str) == Len(str) >= 2 /\ str[1] = "/" /\ str[2] = "/"

\* C18 as stated: for every base and every non-empty relative, combineURLs
\* joins them with a single slash; for an empty relative it returns base.
C18_Original ==
  (pure.op = "combineURLs" /\ pure.out # None) =>
    IF pure.args[2] = <<>>
    THEN pure.out[1] = pure.args[1]
    ELSE Joined(pure.args[1], pure.args[2], pure.out[1])

\* C18: combineURLs takes one trailing slash off base and puts one leading
\* slash before a relative that has none; for every base that does not end
\* with two slashes and every non-empty relative that does not begin with two
\* slashes the result joins them with a single slash; for an empty relative it
\* returns base.
C18_SingleSlash ==
  (pure.op = "combineURLs" /\ pure.out # None) =>
    LET base == pure.args[1]
        relative == pure.args[2]
        out == pure.out[1]
    IN /\ relative = <<>> => out = base
       /\ relative # <<>> =>
            /\ Len(out) = Len(base) + Len(relative) + 1
                          - (IF EndsWith(base, "/") THEN 1 ELSE 0)
                          - (IF StartsWith(relative, "/") THEN 1 ELSE 0)
            /\ (~TwoTrailing(base) /\ ~TwoLeading(relative)) => Joined(base, relative, out)

\* "a/" and "/a" give "a/a"
C18_Witness ==
  /\ pure.op = "combineURLs"
  /\ pure.args = << <<"a", "/">>, <<"/", "a">> >>
  /\ pure.out = Some(<<"a", "/", "a">>)

\* the rendering of a key or a value the repository's test expects in the
\* query string: percent-encoding, a blank is %20 (apico.test.ts:67)
PercentEncode(str) ==
  [i \in 1..Len(str) |->
     CASE str[i] = " " -> "%20"
       [] str[i] = "/" -> "%2F"
       [] str[i] = "?" -> "%3F"
       [] OTHER -> str[i]]

\* the entries whose value is defined, as key=value joined by &
RECURSIVE Pairs(_)
Pairs(entries) ==
  IF entries = <<>> THEN <<>>
  ELSE PercentEncode(Head(entries).key) \o <<"=">>
       \o PercentEncode(String(Head(entries).value[1]))
       \o (IF Len(entries) > 1 THEN <<"&">> \o Pairs(Tail(entries)) ELSE <<>>)

\* C19: buildURL returns the URL followed by ? (by & when the URL has a query
\* string already) and by the key=value pairs of the entries whose value is
\* defined, in iteration order and joined by &; it returns the URL unchanged
\* when no entry has a defined value.
C19_QueryString ==
  (pure.op = "buildURL" /\ pure.out # None) =>
    LET url == pure.args[1]
        defined == SelectSeq(pure.args[2], LAMBDA e : e.value # None)
    IN IF defined = <<>>
       THEN pure.out[1] = url
       ELSE pure.out[1] = url \o <<IF Includes(url, "?") THEN "&" ELSE "?">> \o Pairs(defined)

\* the config has the field with a value that is neither undefined nor the
\* empty string
Present(cfg, k) == Field(cfg, k) # None /\ Field(cfg, k) # Some(<<>>)

\* the URL the claim describes, from the config the pre-request interceptors
\* left
ClaimedURL(cfg) ==
  LET url == IF Present(cfg, "url") THEN cfg["url"][1] ELSE <<>>
      based == IF Present(cfg, "baseURL") THEN combineURLs(cfg["baseURL"][1], url) ELSE url
  IN IF Field(cfg, "params") # None THEN buildURL(based, cfg["params"][1]) ELSE based

\* C17: fetch is called with the URL assembled from the config the pre-request
\* interceptors left: combineURLs(baseURL, url) when there is a baseURL, url
\* otherwise, extended by buildURL when there are params; a client created
\* with the baseURL B requesting "/users" without params calls fetch with B
\* followed by "/users", and with B followed by the path an interceptor put in
\* its place.
C17_AssembledURL ==
  \A r \in Callers :
    rq[r].call # None =>
      LET cfg == rq[r].prepared[1]
          url == rq[r].call[1].url
      IN /\ url = ClaimedURL(cfg)
         /\ (defaults = createApicoInstance([baseURL |-> Some(BaseURL)])
             /\ "params" \notin DOMAIN cfg) =>
              /\ (cfg.tags = <<>> /\ Field(cfg, "url") = Some(<<"/", "users">>))
                   => url = <<"https:", "/", "/", "api.example.com", "/", "users">>
              /\ Field(cfg, "url") = Some(RewrittenPath)
                   => url = <<"https:", "/", "/", "api.example.com", "/", "v2">>

\* the client with the baseURL B has called fetch for "/users"
C17_Witness ==
  \E r \in Callers :
    /\ rq[r].pc = "fetch"
    /\ defaults = createApicoInstance([baseURL |-> Some(BaseURL)])
    /\ rq[r].prepared[1].tags = <<>>
    /\ "params" \notin DOMAIN rq[r].prepared[1]
    /\ Field(rq[r].prepared[1], "url") = Some(<<"/", "users">>)
    /\ rq[r].call[1].url = <<"https:", "/", "/", "api.example.com", "/", "users">>

\* the config names the header
SetsHeader(cfg, key) == key \in DOMAIN HeadersOf(cfg)

\* C20: a call of fetch for a POST, PUT or PATCH with an object as payload has
\* the JSON text of the payload as body, and the header Content-Type:
\* application/json whenever the config the body step found names neither
\* Content-Type nor content-type.
C20_JsonBody ==
  \A r \in Callers :
    (/\ rq[r].call # None
     /\ rq[r].call[1].method \in {"POST", "PUT", "PATCH"}
     /\ DataOf(rq[r].prepared[1]) = "object") =>
      /\ rq[r].call[1].body = [kind |-> "json", of |-> "object"]
      /\ (~SetsHeader(rq[r].prepared[1], "Content-Type")
          /\ ~SetsHeader(rq[r].prepared[1], "content-type")) =>
           /\ "Content-Type" \in DOMAIN rq[r].call[1].headers
           /\ rq[r].call[1].headers["Content-Type"] = "application/json"

\* a POST of an object without a content type of its own has reached fetch
\* with the JSON body and the JSON content type
C20_Witness ==
  \E r \in Callers :
    /\ rq[r].pc = "fetch"
    /\ rq[r].call[1].method = "POST"
    /\ DataOf(rq[r].prepared[1]) = "object"
    /\ DOMAIN HeadersOf(rq[r].prepared[1]) = {"Accept"}
    /\ rq[r].call[1].body = [kind |-> "json", of |-> "object"]
    /\ rq[r].call[1].headers =
         (("Content-Type" :> "application/json") @@ AcceptHeaders)

\* ---------------------------------------------------------------------------
\* The verb shortcuts (core.ts:280-384)
\* ---------------------------------------------------------------------------

\* the shortcuts of the instance: one per verb, and its Safe twin
PlainVerbs == {"get", "delete", "head", "options", "post", "put", "patch"}

SafeVerbs == {"getSafe", "deleteSafe", "headSafe", "optionsSafe",
              "postSafe", "putSafe", "patchSafe"}

Verbs == PlainVerbs \cup SafeVerbs

\* the method a shortcut names
VerbMethod(verb) ==
  CASE verb \in {"get", "getSafe"} -> "GET"
    [] verb \in {"delete", "deleteSafe"} -> "DELETE"
    [] verb \in {"head", "headSafe"} -> "HEAD"
    [] verb \in {"options", "optionsSafe"} -> "OPTIONS"
    [] verb \in {"post", "postSafe"} -> "POST"
    [] verb \in {"put", "putSafe"} -> "PUT"
    [] verb \in {"patch", "patchSafe"} -> "PATCH"

\* post, put, patch and their Safe twins take a data argument
TakesData(verb) == VerbMethod(verb) \in {"POST", "PUT", "PATCH"}

\* the config a shortcut hands on: { ...config, url, method } and, with a data
\* argument, { ...config, url, method, data }
ShortcutConfig_ConfigWins(verb, url, data, config) ==
  Overlay([url |-> Some(url), method |-> Some(VerbMethod(verb))], config)

ShortcutConfig(verb, url, data, config) ==
  IF TakesData(verb)
    THEN Overlay(config, [url |-> Some(url), method |-> Some(VerbMethod(verb)), data |-> data])
    ELSE Overlay(config, [url |-> Some(url), method |-> Some(VerbMethod(verb))])

\* a shortcut is called: it calls request, its Safe twin requestSafe
Shortcut(r, verb, url, data, config) ==
  /\ Start(r, ShortcutConfig(verb, url, data, config), verb \in SafeVerbs)
  /\ pure' = [op |-> verb, args |-> <<url, data, config>>, out |-> None]

\* The caller uses the shortcuts; the config given along may carry a url, a
\* method and a data of its own.
VerbUrls == {<<"/", "users">>}

VerbDatas == {"undefined", "object"}

VerbConfigs ==
  {<<>>, [timeout |-> Some(50)],
   [url |-> Some(<<"/", "other">>), method |-> Some("PUT"), data |-> "string"]}

NextVerbs ==
  \/ \E r \in Callers :
       /\ rq[r].pc = "idle"
       /\ \E verb \in Verbs, url \in VerbUrls, data \in VerbDatas, config \in VerbConfigs :
            Shortcut(r, verb, url, IF TakesData(verb) THEN data ELSE "undefined", config)
       /\ UNCHANGED reg
  \/ (\E r \in Callers : PreInvoke(r)) /\ UNCHANGED <<reg, pure>>
  \/ (\E r \in Callers : rq[r].pc = "preAwait" /\ \E b \in SendBehaviours : PreResume(r, b))
       /\ UNCHANGED <<reg, pure>>
  \/ (\E r \in Callers : Send(r)) /\ UNCHANGED <<reg, pure>>
  \/ (\E r \in Callers : Transport(r)) /\ UNCHANGED <<reg, pure>>
  \/ (\E r \in Callers : Finish(r)) /\ UNCHANGED <<reg, pure>>

SpecVerbs == InitSend /\ [][NextVerbs]_vars

\* the config request({ ...config, url, method }) is called with, written out
\* field by field: the fields of config, but url, method (and data) as given
Forwarded(verb, url, data, config) ==
  LET keys == DOMAIN config \cup {"url", "method"} \cup
              (IF TakesData(verb) THEN {"data"} ELSE {})
  IN [k \in keys |->
        IF k = "url" THEN Some(url)
        ELSE IF k = "method" THEN Some(VerbMethod(verb))
        ELSE IF k = "data" /\ TakesData(verb) THEN data
        ELSE config[k]]

\* C21: a request begun through a verb shortcut is the request that
\* request (requestSafe for a Safe shortcut) begins for the config
\* { ...config, url, method } (with data for post, put, patch): it was given
\* that config, it runs safe exactly for a Safe shortcut, and its effective
\* config is the one request builds from that config; url, method and data of
\* the shortcut win over fields of the same name in config.
C21_Forwarding ==
  \A r \in Reqs :
    (pure.op \in Verbs /\ rq[r].pc # "idle") =>
      LET url == pure.args[1]
          data == pure.args[2]
          config == pure.args[3]
          fwd == Forwarded(pure.op, url, data, config)
      IN /\ rq[r].given = Some(fwd)
         /\ rq[r].safe = (pure.op \in SafeVerbs)
         /\ fwd.url = Some(url)
         /\ fwd.method = Some(VerbMethod(pure.op))
         /\ TakesData(pure.op) => fwd.data = data
         /\ rq[r].pc = "pre" /\ rq[r].idx = 0 =>
              rq[r].requestConfig = Some(buildRequestConfig(fwd, defaults))

\* a shortcut called with a config that has a url, method and data of its own
\* has sent its request
C21_Witness ==
  \E r \in Reqs :
    /\ pure.op = "postSafe"
    /\ "url" \in DOMAIN pure.args[3]
    /\ pure.args[2] = "object"
    /\ rq[r].pc = "fetch"
    /\ rq[r].call # None
    /\ rq[r].call[1].method = "POST"

\* ---------------------------------------------------------------------------
\* The same requestSafe call made twice (core.ts:130-278)
\* ---------------------------------------------------------------------------

\* A deterministic transport answers a call always the same way: it resolves
\* with one response, rejects with one error, or does not answer, and the
\* platform rejects an aborted fetch always the same way.  Each interceptor
\* behaves the same way each time it is called.
TransportOutcomes ==
  {[kind |-> "resolve", with |-> resp] :
     resp \in {x \in FetchResponses : x.decodable}} \cup
  {[kind |-> "reject", with |-> RawError("TypeError", TRUE, <<"Network", "down">>)],
   [kind |-> "hang", with |-> "reason"],
   [kind |-> "hang", with |-> "AbortError"]}

Worlds ==
  [transport : TransportOutcomes, before : BeforeBehaviours,
   response : ResponseBehaviours, error : {"return", "plain", "throw"}]

TwiceConfigs ==
  {<<>>,
   [method |-> Some("POST"), data |-> "object", timeout |-> Some(50)],
   [method |-> Some("POST"), data |-> "cyclic"]}

\* the calls made so far and their result pairs are kept in pure
InitTwice ==
  /\ beforeRequestInterceptors \in Installed
  /\ responseInterceptors \in Installed
  /\ errorInterceptors \in Installed
  /\ nreg = Len(beforeRequestInterceptors) + Len(responseInterceptors)
              + Len(errorInterceptors)
  /\ rq = [r \in Reqs |-> IdleReq]
  /\ \E dc \in {<<>>, [baseURL |-> Some(BaseURL)]} : defaults = createApicoInstance(dc)
  /\ reg = NoReg
  /\ \E config \in TwiceConfigs, world \in Worlds :
       pure = [op |-> "requestSafe", args |-> <<config, world, defaults>>, out |-> <<>>]

\* requestSafe(config): the first call, and the second once the first returned
CallSafe(r) ==
  /\ Len(pure.out) < 2
  /\ Start(r, pure.args[1], TRUE)
  /\ UNCHANGED <<reg, pure>>

\* the caller keeps the pair it got
Collect(r) ==
  /\ Reset(r)
  /\ pure' = [pure EXCEPT !.out = Append(@, rq[r].result[1])]
  /\ UNCHANGED reg

\* the transport answers as its outcome says
Answer(r) ==
  LET t == pure.args[2].transport
  IN \/ t.kind = "resolve" /\ TransportResolve(r, t.with)
     \/ t.kind = "reject" /\ TransportReject(r, t.with)
     \/ /\ t.kind = "hang"
        /\ rq[r].timer = "pending"
        /\ \E e \in AbortRejections(rq[r].requestConfig[1].timeout[1]) :
             /\ (e.name = "AbortError") = (t.with = "AbortError")
             /\ TimerAbort(r, e)

NextTwice ==
  \/ \E r \in Callers : CallSafe(r)
  \/ (\E r \in Callers : PreInvoke(r)) /\ UNCHANGED <<reg, pure>>
  \/ (\E r \in Callers : PreResume(r, pure.args[2].before)) /\ UNCHANGED <<reg, pure>>
  \/ (\E r \in Callers : Send(r)) /\ UNCHANGED <<reg, pure>>
  \/ (\E r \in Callers : Answer(r)) /\ UNCHANGED <<reg, pure>>
  \/ (\E r \in Callers : Decode(r)) /\ UNCHANGED <<reg, pure>>
  \/ (\E r \in Callers : RespInvoke(r)) /\ UNCHANGED <<reg, pure>>
  \/ (\E r \in Callers : RespResume(r, pure.args[2].response)) /\ UNCHANGED <<reg, pure>>
  \/ (\E r \in Callers : StatusCheck(r)) /\ UNCHANGED <<reg, pure>>
  \/ (\E r \in Callers : ErrInvoke(r)) /\ UNCHANGED <<reg, pure>>
  \/ (\E r \in Callers : ErrResume(r, pure.args[2].error)) /\ UNCHANGED <<reg, pure>>
  \/ (\E r \in Callers : ErrThrow(r)) /\ UNCHANGED <<reg, pure>>
  \/ (\E r \in Callers : Return(r)) /\ UNCHANGED <<reg, pure>>
  \/ \E r \in Callers : Collect(r)

SpecTwice == InitTwice /\ [][NextTwice]_vars

\* C22: two requestSafe calls with the same config on the same client, with
\* the same interceptors and a transport that answers the same way, give the
\* same pair; whenever no call is running the defaults are what they were
\* before the first call, and the second call starts from the same effective
\* config as the first.
C22_Repeatable ==
  /\ Len(pure.out) = 2 => pure.out[1] = pure.out[2]
  /\ \A r \in Callers :
       /\ rq[r].pc \in {"idle", "done"} => defaults = pure.args[3]
       /\ rq[r].pc = "pre" /\ rq[r].idx = 0 =>
            rq[r].requestConfig = Some(buildRequestConfig(pure.args[1], pure.args[3]))

\* both calls of a POST were sent and answered, and the body step wrote the
\* Content-Type header in each of them
C22_Witness ==
  /\ Len(pure.out) = 2
  /\ pure.args[1] # <<>>
  /\ pure.out[2].response # None
  /\ "Content-Type" \in DOMAIN HeadersOf(pure.out[2].response[1].config)
  /\ "Content-Type" \notin DOMAIN HeadersOf(pure.args[3])

\* ---------------------------------------------------------------------------
\* Requests running at the same time on one client
\* ---------------------------------------------------------------------------

\* buildRequestConfig copies the fields of defaults and config but not the
\* objects they hold (utils.ts:10-14): the params object of an effective
\* config is the one of the caller's config when that has the key, and else
\* the one of the defaults.
ParamsHolder(config, dflt) ==
  IF "params" \in DOMAIN config THEN "caller"
  ELSE IF "params" \in DOMAIN dflt THEN "defaults"
  ELSE "nobody"

\* the request still has the params object of the defaults
SharesParams(q) ==
  /\ q.given # None
  /\ q.requestConfig # None
  /\ ParamsHolder(q.given[1], defaults) = "defaults"

\* an interceptor that sets a key of the params object it finds in the config
Touched(params) ==
  IF \E i \in 1..Len(params[1]) : params[1][i].key = <<"seen">>
  THEN params
  ELSE Some(Append(params[1], [key |-> <<"seen">>, value |-> Str(<<"1">>)]))

Touch(cfg) == ("params" :> Touched(cfg["params"])) @@ cfg

\* a pre-request interceptor does config.params.seen = "1" and returns the
\* config: everything that holds the same params object shows the new key
PreTouch(r) ==
  /\ rq[r].pc = "preAwait"
  /\ Field(rq[r].requestConfig[1], "params") # None
  /\ LET shared == SharesParams(rq[r])
     IN /\ rq' = [q \in Reqs |->
                   IF q = r
                   THEN [rq[r] EXCEPT !.pc = "pre", !.cur = None,
                           !.requestConfig =
                              Some(Touch(Returned(rq[r].requestConfig[1], rq[r].cur[1])))]
                   ELSE IF shared /\ SharesParams(rq[q])
                        THEN [rq[q] EXCEPT !.requestConfig = Some(Touch(@[1]))]
                        ELSE rq[q]]
        /\ defaults' = IF shared THEN Touch(defaults) ELSE defaults
  /\ UNCHANGED <<lists, nreg>>

\* A client with default params and one pre-request interceptor; two requests
\* are under way at the same time.
DefaultParams == Some(<<[key |-> <<"q">>, value |-> Str(<<"a">>)]>>)

OwnParams == Some(<<[key |-> <<"page">>, value |-> Num(10)]>>)

ConcurrentConfigs ==
  {[timeout |-> Some(50)],
   [method |-> Some("POST"), data |-> "object"],
   [params |-> OwnParams]}

InitConcurrent ==
  /\ beforeRequestInterceptors = <<"f">>
  /\ responseInterceptors = <<>>
  /\ errorInterceptors = <<>>
  /\ nreg = 1
  /\ rq = [r \in Reqs |-> IdleReq]
  /\ defaults = createApicoInstance([params |-> DefaultParams])
  /\ reg = NoReg
  /\ pure = [op |-> "concurrent", args |-> <<defaults>>, out |-> None]

\* the steps of one of the requests; the other one is wherever it is
ConcurrentStep(r) ==
  \/ rq[r].pc = "idle" /\ \E c \in ConcurrentConfigs : Start(r, c, FALSE)
  \/ PreInvoke(r)
  \/ PreResume(r, "rewrite")
  \/ PreTouch(r)
  \/ Send(r)
  \/ \E resp \in {x \in FetchResponses : x.decodable /\ x.status = 200} :
       TransportResolve(r, resp)
  \/ TimerFire(r)
  \/ Decode(r)
  \/ StatusCheck(r)
  \/ ErrThrow(r)
  \/ Return(r)
  \/ Reset(r)

NextConcurrent == \E r \in Reqs : ConcurrentStep(r) /\ UNCHANGED <<reg, pure>>

SpecConcurrent == InitConcurrent /\ [][NextConcurrent]_vars

\* a config or the defaults without the objects nested in them
Shallow(cfg) == [k \in DOMAIN cfg \ {"params"} |-> cfg[k]]

\* a request fails with a timeout only when its own timer fired
OwnTimer ==
  \A r \in Reqs :
    rq[r].cause = "timeout" =>
      /\ rq[r].timer = "fired"
      /\ HasTimer(Field(rq[r].requestConfig[1], "timeout"))

\* C23 as stated: each request has its own timer, and no change made to the
\* config of a request, by the pipeline or by an interceptor, shows in the
\* defaults or in the effective config another request starts from.
C23_Original ==
  /\ OwnTimer
  /\ defaults = pure.args[1]
  /\ \A r \in Reqs :
       rq[r].pc = "pre" /\ rq[r].idx = 0 =>
         rq[r].requestConfig = Some(buildRequestConfig(rq[r].given[1], pure.args[1]))

\* C23: each request has its own timer, so it fails with a timeout only when
\* its own timer fired; each request has its own config object and its own
\* headers object, so the defaults keep their top-level fields and headers
\* and a request starts from the top-level fields and headers that
\* buildRequestConfig yields for its config, whatever other requests did; a
\* request whose config has params of its own starts with those params.
\* Only the params object the defaults hold is common to the requests that
\* have no params of their own.
C23_Independent ==
  /\ OwnTimer
  /\ Shallow(defaults) = Shallow(pure.args[1])
  /\ \A r \in Reqs :
       rq[r].pc = "pre" /\ rq[r].idx = 0 =>
         /\ Shallow(rq[r].requestConfig[1]) =
              Shallow(buildRequestConfig(rq[r].given[1], pure.args[1]))
         /\ ParamsHolder(rq[r].given[1], defaults) = "caller" =>
              rq[r].requestConfig[1]["params"] = rq[r].given[1]["params"]

\* one request timed out while the other, begun without a timeout after the
\* interceptor changed the url, the headers and the params of the first, got
\* its response
C23_Witness ==
  \E r, q \in Reqs :
    /\ rq[r].cause = "timeout"
    /\ rq[q].returned # None
    /\ rq[q].given = Some([method |-> Some("POST"), data |-> "object"])
    /\ defaults # pure.args[1]

\* ---------------------------------------------------------------------------
\* The performance record of a response (core.ts:50-57, 92-96, utils.ts:151-178)
\* ---------------------------------------------------------------------------

\* the clock readings of a request go up to
MaxClock == 7

\* a || b for an optional number a: 0 and undefined are falsy
OrElse(a, b) == IF a = None \/ a = Some(0) THEN b ELSE a[1]

\* calculatePerformanceMetrics(metrics, response); now is what
\* performance.now() would return in it
calculatePerformanceMetrics(metrics, now) ==
  LET endTime == OrElse(metrics.endTime, now)
      firstByteTime == OrElse(metrics.firstByteTime, endTime)
      transferTime == endTime - firstByteTime
  IN [duration |-> endTime - metrics.startTime,
      latency |-> firstByteTime - metrics.startTime,
      processingTime |-> transferTime,
      transferTime |-> transferTime]

\* the performance record createApicoResponse builds: it reads the clock when
\* it begins (processingStartTime) and when the body is decoded
PerformanceRecord(performanceMetrics, processingStartTime, decodedAt) ==
  LET given == IF performanceMetrics = None
               THEN [startTime |-> 0, firstByteTime |-> None, endTime |-> None]
               ELSE performanceMetrics[1]
      first == IF OrElse(given.firstByteTime, 0) = 0
               THEN [given EXCEPT !.firstByteTime = Some(processingStartTime)]
               ELSE given
      final == [first EXCEPT !.endTime = Some(decodedAt)]
  IN calculatePerformanceMetrics(final, decodedAt)

\* request hands no metrics to createApicoResponse (core.ts:203)
RequestMetrics(startedAt) == None

\* A request is begun, its response arrives and is decoded, at three readings
\* of the clock.
InitPerformance ==
  /\ Fresh(<<>>)
  /\ \E startedAt \in 0..MaxClock, arrivedAt \in 0..MaxClock, decodedAt \in 0..MaxClock :
       /\ startedAt <= arrivedAt
       /\ arrivedAt <= decodedAt
       /\ pure = [op |-> "request", args |-> <<startedAt, arrivedAt, decodedAt>>, out |-> None]

\* createApicoResponse as request calls it
CallCreateApicoResponse ==
  /\ pure.op = "request"
  /\ pure' = [pure EXCEPT !.op = "createApicoResponse",
                !.out = Some(PerformanceRecord(RequestMetrics(pure.args[1]),
                                               pure.args[2], pure.args[3]))]
  /\ UNCHANGED <<lists, nreg, rq, defaults, reg>>

NextPerformance == CallCreateApicoResponse

SpecPerformance == InitPerformance /\ [][NextPerformance]_vars

\* C24: the record of a response has duration = end - start of the request,
\* latency = first byte - start, transferTime = end - first byte, hence
\* duration = latency + transferTime, and processingTime = transferTime.
C24_Performance ==
  pure.op = "createApicoResponse" =>
    LET start == pure.args[1]
        firstByte == pure.args[2]
        end == pure.args[3]
        p == pure.out[1]
    IN /\ p.duration = end - start
       /\ p.latency = firstByte - start
       /\ p.transferTime = end - firstByte
       /\ p.duration = p.latency + p.transferTime
       /\ p.processingTime = p.transferTime

\* the error is an HTTP-status error for status S
HttpStatusError(err, status) ==
  /\ err # None
  /\ err[1].isApicoError
  /\ err[1].status = Some(status)
  /\ err[1].message = StatusMsg(status)

\* C25 as stated: request returns a response only when the transport response
\* is ok with a 2xx status; for every other transport response it fails with
\* an HTTP-status error.
C25_Original ==
  \A r \in Reqs :
    /\ rq[r].returned # None =>
         /\ rq[r].response # None
         /\ rq[r].response[1].ok
         /\ Is2xx(rq[r].response[1].status)
    /\ (Settled(rq[r]) /\ NonOk(rq[r])) =>
         HttpStatusError(rq[r].thrown, rq[r].response[1].status)

\* C25: request returns a response only when the transport response is ok
\* with a 2xx status; after every other transport response it fails, and it
\* builds the HTTP-status error for the status exactly when no response
\* interceptor threw; that error is what it throws when no error interceptor
\* is registered.  When a response interceptor threw, the failure is the
\* wrapped throw, without status.
C25_StatusGate ==
  \A r \in Reqs :
    LET q == rq[r]
    IN /\ q.returned # None =>
            /\ q.response # None
            /\ q.response[1].ok
            /\ Is2xx(q.response[1].status)
       /\ (Settled(q) /\ NonOk(q)) =>
            /\ q.thrown # None
            /\ q.returned = None
            /\ q.cause \in {"http", "respInt"}
       /\ (q.pc = "errHttp" /\ q.idx = 0 /\ q.cur = None) =>
            /\ NonOk(q)
            /\ HttpStatusError(q.error, q.response[1].status)
       /\ (Settled(q) /\ q.cause = "http") => NonOk(q)
       /\ (Settled(q) /\ q.cause = "http" /\ errorInterceptors = <<>>) =>
            HttpStatusError(q.thrown, q.response[1].status)
       /\ (Settled(q) /\ NonOk(q) /\ q.cause = "respInt" /\ errorInterceptors = <<>>) =>
            /\ q.thrown[1].isApicoError
            /\ q.thrown[1].status = None

\* a 404 went through two response interceptors and left request as the
\* HTTP-status error for 404
C25_Witness ==
  \E r \in Reqs :
    /\ Settled(rq[r]) /\ NonOk(rq[r])
    /\ rq[r].cause = "http"
    /\ Len(responseInterceptors) = 2 /\ errorInterceptors = <<>>
    /\ HttpStatusError(rq[r].thrown, 404)

\* ---------------------------------------------------------------------------
\* Response interceptors that change the status of the response
\* ---------------------------------------------------------------------------

\* the response with another status: a failure status for a 2xx one, 200 for
\* any other
Restatused(resp, f) ==
  [Transformed(resp, f) EXCEPT !.status = IF Is2xx(@) THEN 500 ELSE 200]

\* the awaited response interceptor returns { ...response, status }
RespRestatus(r) ==
  /\ rq[r].pc = "respAwait"
  /\ Upd(r, [rq[r] EXCEPT !.pc = "resp", !.cur = None,
               !.apicoResponse = Some(Restatused(rq[r].apicoResponse[1], rq[r].cur[1]))])
  /\ UNCHANGED <<lists, nreg, defaults>>

\* A client with one or two response interceptors, with or without an error
\* interceptor.
InitStatus ==
  /\ beforeRequestInterceptors = <<>>
  /\ responseInterceptors \in {<<"f">>, <<"f", "g">>}
  /\ errorInterceptors \in Installed
  /\ nreg = Len(responseInterceptors) + Len(errorInterceptors)
  /\ rq = [r \in Reqs |-> IdleReq]
  /\ defaults = createApicoInstance(<<>>)
  /\ reg = NoReg
  /\ pure = NoPure

StatusStep(r) ==
  \/ rq[r].pc = "idle" /\ \E c \in CallConfigs, s \in BOOLEAN : Start(r, c, s)
  \/ Send(r)
  \/ \E resp \in FetchResponses : TransportResolve(r, resp)
  \/ Decode(r)
  \/ RespInvoke(r)
  \/ RespResume(r, "return")
  \/ RespRestatus(r)
  \/ StatusCheck(r)
  \/ ErrInvoke(r)
  \/ ErrResume(r, "return")
  \/ ErrThrow(r)
  \/ Return(r)
  \/ Reset(r)

NextStatus == \E r \in Callers : StatusStep(r) /\ UNCHANGED <<reg, pure>>

SpecStatus == InitStatus /\ [][NextStatus]_vars

\* the success check of the request has been made
Checked(q) ==
  /\ q.apicoResponse # None
  /\ q.pc \in {"errHttp", "settled", "done"}

\* C26 as stated: the success check looks at the response returned by the
\* last response interceptor: the request succeeds exactly when that response
\* has a 2xx status.
C26_Original ==
  \A r \in Reqs :
    Checked(rq[r]) =>
      ((rq[r].cause # "http") <=> Is2xx(rq[r].apicoResponse[1].status))

\* C26: the success check comes after the response interceptors, and it
\* looks at the ok flag of the transport response: when it is made every
\* response interceptor has run, the request succeeds exactly when the
\* transport response is ok, whatever status the response returned by the
\* last interceptor has, and that response is the one returned or attached to
\* the error.
C26_CheckedOnTransport ==
  \A r \in Reqs :
    LET q == rq[r]
    IN Checked(q) =>
         /\ q.apicoResponse[1].data.by = responseInterceptors
         /\ (q.cause # "http") <=> q.response[1].ok
         /\ q.cause # "http" /\ Settled(q) => q.returned = q.apicoResponse
         /\ q.cause = "http" /\ q.pc = "errHttp" /\ q.idx = 0 =>
              q.error[1].response = q.apicoResponse

\* a 200 whose response the interceptors turned into a 500 was returned, and
\* a 404 whose response they turned into a 200 was thrown (in another run)
C26_Witness ==
  \E r \in Reqs :
    /\ Settled(rq[r])
    /\ Len(responseInterceptors) = 2
    /\ rq[r].response # None
    /\ rq[r].response[1].status = 200
    /\ rq[r].returned # None
    /\ rq[r].returned[1].status = 500

C28_ChainOnce ==
  \A r \in Reqs :
    /\ rq[r].passes <= 1
    /\ (Settled(rq[r]) /\ rq[r].cause = "http" /\ ~rq[r].ethrew) =>
         /\ rq[r].thrown = rq[r].error
         /\ rq[r].thrown[1].response = rq[r].apicoResponse

\* C29: the timer exists only around the transport call: none is armed while
\* the pre-request interceptors run, none is pending while the body is
\* decoded or the response or error interceptors run, a timeout failure
\* arises only while the transport call is pending, and a request whose
\* transport call completed never fails with a timeout.
C29_AroundTransport ==
  \A r \in Reqs :
    LET q == rq[r]
    IN /\ q.pc \in {"pre", "preAwait"} => q.timer = "none"
       /\ q.cause = "pre" => q.timer = "none"
       /\ q.pc \in {"decode", "resp", "respAwait", "errHttp", "errCatch"} =>
            q.timer # "pending"
       /\ q.response # None => (q.cause # "timeout" /\ q.timer # "fired")
       /\ q.cause = "timeout" =>
            /\ q.fetchCalls = 1
            /\ q.response = None
            /\ q.apicoResponse = None

\* a request with a timeout went through a pre-request and a response
\* interceptor and returned its response, the timer cancelled
C29_Witness ==
  \E r \in Reqs :
    /\ Settled(rq[r])
    /\ rq[r].returned # None
    /\ rq[r].timer = "cleared"
    /\ beforeRequestInterceptors # <<>>
    /\ responseInterceptors # <<>>

\* ---------------------------------------------------------------------------
\* Requests with and without an effective timeout (utils.ts:119-134)
\* ---------------------------------------------------------------------------

\* timeout of a config: no key, undefined, zero, negative, positive
TimeoutValues == {None, Some(0), Some(-1), Some(50)}

TimeoutConfigs ==
  {t @@ d : t \in Optional("timeout", TimeoutValues),
            d \in {<<>>, [method |-> Some("POST"), data |-> "object"]}}

\* the client may have a default timeout
InitTimeout ==
  /\ beforeRequestInterceptors \in Installed
  /\ responseInterceptors = <<>>
  /\ errorInterceptors = <<>>
  /\ nreg = Len(beforeRequestInterceptors)
  /\ rq = [r \in Reqs |-> IdleReq]
  /\ \E dc \in Optional("timeout", {Some(0), Some(50)}) : defaults = createApicoInstance(dc)
  /\ reg = NoReg
  /\ pure = NoPure

\* the transport answers at any time, or never
NextTimeout ==
  \/ (\E r \in Callers : Issue(r, TimeoutConfigs, {"return"})) /\ UNCHANGED <<reg, pure>>
  \/ (\E r \in Callers : Transport(r)) /\ UNCHANGED <<reg, pure>>
  \/ (\E r \in Callers : Finish(r)) /\ UNCHANGED <<reg, pure>>

SpecTimeout == InitTimeout /\ [][NextTimeout]_vars

\* the effective timeout of the request is a positive number
PositiveTimeout(q) ==
  /\ Field(q.requestConfig[1], "timeout") # None
  /\ Field(q.requestConfig[1], "timeout")[1] > 0

\* C30: a timer is scheduled exactly for a positive effective timeout: while
\* the transport call is pending the timer is pending when the timeout is
\* positive and there is none when it is absent, zero or negative; a request
\* without a positive timeout never has a timer and never fails with a
\* timeout.
C30_PositiveOnly ==
  \A r \in Reqs :
    rq[r].requestConfig # None =>
      /\ rq[r].pc = "fetch" =>
           (rq[r].timer = "pending") <=> PositiveTimeout(rq[r])
      /\ ~PositiveTimeout(rq[r]) =>
           /\ rq[r].timer = "none"
           /\ rq[r].cause # "timeout"

\* a request that sets timeout 0 on a client with a default timeout got its
\* response without a timer ever being scheduled
C30_Witness ==
  \E r \in Reqs :
    /\ Settled(rq[r])
    /\ rq[r].returned # None
    /\ Field(defaults, "timeout") = Some(50)
    /\ Field(rq[r].given[1], "timeout") = Some(0)
    /\ rq[r].timer = "none"

\* ---------------------------------------------------------------------------
\* The body step for every method and payload (core.ts:158-179)
\* ---------------------------------------------------------------------------

BodyMethods ==
  Optional("method", {Some(m) : m \in {"GET", "DELETE", "HEAD", "POST", "PUT", "PATCH", "post"}})

BodyDatas == Optional("data", {"undefined", "null", "object", "string", "formData", "blob"})

\* headers of the call: none, a content type in either spelling, an empty one
BodyHeaders ==
  Optional("headers", {("Content-Type" :> "text/csv"), ("content-type" :> "text/csv"),
                       ("Content-Type" :> ""), ("content-type" :> "")})

BodyConfigs == {m @@ d @@ h : m \in BodyMethods, d \in BodyDatas, h \in BodyHeaders}

InitBody ==
  /\ beforeRequestInterceptors \in Installed
  /\ responseInterceptors = <<>>
  /\ errorInterceptors = <<>>
  /\ nreg = Len(beforeRequestInterceptors)
  /\ rq = [r \in Reqs |-> IdleReq]
  /\ defaults = createApicoInstance(<<>>)
  /\ reg = NoReg
  /\ pure = NoPure

NextBody ==
  \/ (\E r \in Callers : Issue(r, BodyConfigs, {"return"})) /\ UNCHANGED <<reg, pure>>
  \/ (\E r \in Callers : Transport(r)) /\ UNCHANGED <<reg, pure>>
  \/ (\E r \in Callers : Finish(r)) /\ UNCHANGED <<reg, pure>>

SpecBody == InitBody /\ [][NextBody]_vars

ContentTypeKeys == {"Content-Type", "content-type"}

\* the method takes a body and the payload is there
Carried(cfg) ==
  /\ MethodOf(cfg) \in {"POST", "PUT", "PATCH"}
  /\ DataOf(cfg) \notin {"undefined", "null"}

\* what holds of every transport call whatever "already set" means: body and
\* added header only for POST, PUT, PATCH with a payload, nothing else in the
\* headers touched
BodyFrame(before, call) ==
  /\ call.body.kind # "null" => Carried(before)
  /\ call.headers # HeadersOf(before) => Carried(before)
  /\ ~Carried(before) =>
       /\ call.body = [kind |-> "null", of |-> "null"]
       /\ call.headers = HeadersOf(before)
  /\ \A k \in DOMAIN HeadersOf(before) \ ContentTypeKeys :
       k \in DOMAIN call.headers /\ call.headers[k] = HeadersOf(before)[k]
  /\ DOMAIN call.headers \subseteq DOMAIN HeadersOf(before) \cup {"Content-Type"}

\* C31 as stated: body and inferred content type only for POST, PUT, PATCH
\* with a payload; a Content-Type or content-type header the effective config
\* already has is neither overwritten nor joined by a second one.
C31_Original ==
  \A r \in Callers :
    rq[r].call # None =>
      LET before == rq[r].prepared[1]
          call == rq[r].call[1]
      IN /\ BodyFrame(before, call)
         /\ \A k \in ContentTypeKeys :
              k \in DOMAIN HeadersOf(before) =>
                /\ call.headers[k] = HeadersOf(before)[k]
                /\ ContentTypeKeys \cap DOMAIN call.headers =
                     ContentTypeKeys \cap DOMAIN HeadersOf(before)

\* C31: body and inferred content type only for POST, PUT, PATCH (in any
\* letter case) with a payload; a Content-Type or content-type header that
\* the effective config has with a non-empty value is neither overwritten nor
\* joined by a second one; one that is the empty string counts as not set:
\* when a content type is inferred, Content-Type is written.
C31_BodyFrame ==
  \A r \in Callers :
    rq[r].call # None =>
      LET before == rq[r].prepared[1]
          call == rq[r].call[1]
          nonEmpty == {k \in ContentTypeKeys \cap DOMAIN HeadersOf(before) :
                         HeadersOf(before)[k] # ""}
      IN /\ BodyFrame(before, call)
         /\ nonEmpty # {} => call.headers = HeadersOf(before)
         /\ (nonEmpty = {} /\ Carried(before)
               /\ getContentTypeHeader(DataOf(before)) # None) =>
              /\ "Content-Type" \in DOMAIN call.headers
              /\ call.headers["Content-Type"] = getContentTypeHeader(DataOf(before))[1]

\* a DELETE with a payload went out without body and without content type,
\* the Accept header of the defaults untouched
C31_Witness ==
  \E r \in Callers :
    /\ rq[r].call # None
    /\ rq[r].call[1].method = "DELETE"
    /\ DataOf(rq[r].prepared[1]) = "object"
    /\ rq[r].call[1].body.kind = "null"
    /\ DOMAIN rq[r].call[1].headers = {"Accept"}

\* ---------------------------------------------------------------------------
\* The decode path of createApicoResponse (core.ts:49-89)
\* ---------------------------------------------------------------------------

\* the operations of a Response that read the body
BodyOps == {"json", "text", "blob", "arrayBuffer", "formData"}

\* config.responseType: unset or one of the five
ResponseTypes == {None} \cup {Some(t) : t \in BodyOps}

\* the content-type header of a response, absent or in pieces such that
\* includes("application/json") and includes("text/") are tests for a piece
ContentTypes ==
  {None, Some(<<"application/json">>), Some(<<"application/json", ";", "charset=utf-8">>),
   Some(<<"text/", "csv">>), Some(<<"image/png">>)}

\* response.headers.get("content-type")?.includes(piece)
HeaderIncludes(contentType, piece) ==
  contentType # None /\ Includes(contentType[1], piece)

\* the operations createApicoResponse calls, in order; the second one of the
\* default branch only when the first one threw
DecodeOps(responseType, contentType) ==
  LET type == IF responseType = None THEN "json" ELSE responseType[1]
  IN IF type = "json" /\ HeaderIncludes(contentType, "application/json") THEN <<"json">>
     ELSE IF type = "text" \/ HeaderIncludes(contentType, "text/") THEN <<"text">>
     ELSE IF type = "blob" THEN <<"blob">>
     ELSE IF type = "arrayBuffer" THEN <<"arrayBuffer">>
     ELSE IF type = "formData" THEN <<"formData">>
     ELSE <<"json", "text">>

\* data of the response: what the operation gave, null when it threw; a
\* body that was read once can be read again only on a transport double
DecodedData(ops, throwing, rereadable) ==
  IF ops[1] \notin throwing THEN Some(ops[1])
  ELSE IF Len(ops) = 2 /\ rereadable /\ ops[2] \notin throwing THEN Some(ops[2])
  ELSE None

\* the bodies: the operations that throw on them
Bodies == {{}, {"json"}, {"json", "formData"}, BodyOps}

InitDecode ==
  /\ Fresh(<<>>)
  /\ \E responseType \in ResponseTypes, contentType \in ContentTypes,
        throwing \in Bodies, rereadable \in BOOLEAN :
       pure = [op |-> "response", out |-> None,
               args |-> <<responseType, contentType, throwing, rereadable>>]

\* createApicoResponse decodes the body
CallDecode ==
  /\ pure.op = "response"
  /\ pure' = [pure EXCEPT !.op = "decode",
                !.out = Some([ops |-> DecodeOps(pure.args[1], pure.args[2]),
                              data |-> DecodedData(DecodeOps(pure.args[1], pure.args[2]),
                                                   pure.args[3], pure.args[4])])]
  /\ UNCHANGED <<lists, nreg, rq, defaults, reg>>

NextDecode == CallDecode

SpecDecode == InitDecode /\ [][NextDecode]_vars

\* C32: the decode operation follows the configured responseType: blob,
\* arrayBuffer, formData and text are decoded by the operation of that name
\* whatever the content type of the response, and any two responses decoded
\* with the same configured responseType go through the same operations, so
\* the content type matters only when responseType is unset.
C32_ByResponseType ==
  pure.op = "decode" =>
    LET responseType == pure.args[1]
    IN /\ responseType \in {Some("blob"), Some("arrayBuffer"), Some("formData"), Some("text")} =>
            pure.out[1].ops = <<responseType[1]>>
       /\ responseType # None =>
            \A contentType \in ContentTypes :
              DecodeOps(responseType, contentType) = pure.out[1].ops

\* the transport completed with a response whose body cannot be decoded
Undecodable(q) == q.response # None /\ ~q.response[1].decodable

\* C33: a response whose body cannot be decoded does not fail the request:
\* the normalized response is built with data null and the status of the
\* transport response, nothing is thrown or caught by the decode step, and
\* unless a response interceptor throws the request returns that response
\* when the transport response is ok and fails with the HTTP-status failure
\* when it is not.
C33_DecodeFailure ==
  \A r \in Reqs :
    LET q == rq[r]
    IN Undecodable(q) =>
         /\ q.cause \in {"none", "http", "respInt"}
         /\ q.pc # "decode" =>
              /\ q.apicoResponse # None
              /\ q.apicoResponse[1].data.body = None
              /\ q.apicoResponse[1].status = q.response[1].status
         /\ (q.pc = "resp" /\ q.idx = 0) =>
              (q.thrown = None /\ q.caught = None /\ q.error = None)
         /\ (Settled(q) /\ q.cause # "respInt") =>
              /\ q.response[1].ok =>
                   (q.cause = "none" /\ q.returned = q.apicoResponse /\ q.thrown = None)
              /\ ~q.response[1].ok =>
                   (q.cause = "http" /\ q.returned = None /\ q.thrown # None)

\* a 200 with an undecodable body was returned with data null, and it passed
\* a response interceptor on the way
C33_Witness ==
  \E r \in Reqs :
    /\ Settled(rq[r]) /\ Undecodable(rq[r])
    /\ rq[r].response[1].status = 200
    /\ responseInterceptors # <<>>
    /\ rq[r].returned # None
    /\ rq[r].returned[1].data.body = None
    /\ rq[r].returned[1].data.by = responseInterceptors

\* ---------------------------------------------------------------------------
\* What a request leaves of the client and of the caller's config
\* ---------------------------------------------------------------------------

FrameConfigs ==
  {u @@ p @@ h @@ d :
     u \in Optional("url", SendUrls), p \in Optional("params", SendParams),
     h \in Optional("headers", {("X-Trace" :> "1")}),
     d \in {<<>>, [method |-> Some("POST"), data |-> "object"],
            [method |-> Some("POST"), data |-> "cyclic"]}}

\* a client without interceptors or with one in each list; the defaults and
\* the lists as they are before the first request are kept in pure
InitFrame ==
  /\ \E installed \in Installed :
       /\ beforeRequestInterceptors = installed
       /\ responseInterceptors = installed
       /\ errorInterceptors = installed
  /\ nreg = Len(beforeRequestInterceptors) + Len(responseInterceptors)
              + Len(errorInterceptors)
  /\ rq = [r \in Reqs |-> IdleReq]
  /\ \E dc \in DefaultConfigs : defaults = createApicoInstance(dc)
  /\ reg = NoReg
  /\ pure = [op |-> "request", args |-> <<defaults, lists>>, out |-> None]

\* request(config): the caller keeps the config object it passed in
CallRequest(r) ==
  /\ rq[r].pc = "idle"
  /\ \E config \in FrameConfigs :
       /\ Start(r, config, FALSE)
       /\ pure' = [pure EXCEPT !.out = Some(config)]
  /\ UNCHANGED reg

FrameStep(r) ==
  \/ PreInvoke(r)
  \/ PreResume(r, "rewrite")
  \/ Send(r)
  \/ Transport(r)
  \/ Decode(r)
  \/ RespInvoke(r)
  \/ RespResume(r, "return")
  \/ StatusCheck(r)
  \/ ErrInvoke(r)
  \/ ErrResume(r, "return")
  \/ ErrThrow(r)
  \/ Return(r)
  \/ Reset(r)

NextFrame ==
  \/ \E r \in Callers : CallRequest(r)
  \/ (\E r \in Callers : FrameStep(r)) /\ UNCHANGED <<reg, pure>>

SpecFrame == InitFrame /\ [][NextFrame]_vars

\* C34: at every point of a request the defaults with their headers and the
\* three interceptor lists are what they were before the request, and the
\* config object the caller passed in is as it was passed.
C34_ReadOnly ==
  /\ defaults = pure.args[1]
  /\ HeadersOf(defaults) = HeadersOf(pure.args[1])
  /\ lists = pure.args[2]
  /\ \A r \in Callers : rq[r].given # None => rq[r].given = pure.out

\* a POST went through config merge, URL assembly and the content-type
\* write, was answered with a non-ok response, and the error was built
C34_Witness ==
  \E r \in Callers :
    /\ Settled(rq[r])
    /\ rq[r].cause = "http"
    /\ Field(defaults, "baseURL") # None
    /\ "Content-Type" \in DOMAIN HeadersOf(rq[r].sent[1])
    /\ "headers" \notin DOMAIN rq[r].given[1]
    /\ rq[r].thrown # None
    /\ rq[r].thrown[1].config = rq[r].requestConfig

StageLists == {"response", "error"}

\* no request has got further than the call of fetch
InFlight == \A r \in Callers : rq[r].pc \in {"idle", "fetch"}

\* the transport answers with a body that can be decoded
StageResponses == {resp \in FetchResponses : resp.decodable /\ resp.status # 0}

NextInFlight ==
  \/ \E r \in Callers :
       /\ rq[r].pc = "idle"
       /\ Start(r, [timeout |-> Some(50)], FALSE)
       /\ reg' = Began
       /\ UNCHANGED pure
  \/ (\E r \in Callers : Send(r)) /\ UNCHANGED <<reg, pure>>
  \/ (\E r \in Callers, resp \in StageResponses : TransportResolve(r, resp))
       /\ UNCHANGED <<reg, pure>>
  \/ (\E r \in Callers : TransportReject(r, RawError("TypeError", TRUE, <<"Network", "down">>)))
       /\ UNCHANGED <<reg, pure>>
  \/ (\E r \in Callers : TimerFire(r)) /\ UNCHANGED <<reg, pure>>
  \/ (\E r \in Callers : Finish(r)) /\ UNCHANGED <<reg, pure>>
  \/ \E r \in Callers :
       RespInvoke(r) /\ reg' = Logged("response", rq[r].idx + 1) /\ UNCHANGED pure
  \/ \E r \in Callers :
       (\E b \in ResponseBehaviours : RespResume(r, b)) /\ UNCHANGED <<reg, pure>>
  \/ \E r \in Callers :
       ErrInvoke(r) /\ reg' = Logged("error", rq[r].idx + 1) /\ UNCHANGED pure
  \/ \E r \in Callers :
       (\E b \in ErrorBehaviours : ErrResume(r, b)) /\ UNCHANGED <<reg, pure>>
  \/ /\ InFlight
     /\ \E l \in StageLists, f \in Fns : Register(l, f)
     /\ UNCHANGED pure
  \/ /\ InFlight
     /\ \E cap \in reg.caps : CallCap(cap)
     /\ UNCHANGED pure

SpecInFlight == Init /\ [][NextInFlight]_vars

\* the entries of a sequence of entries
Entries(ids) == {ids[i] : i \in 1..Len(ids)}

\* the entries list l got since the request started, and those it lost
Arrived(l) == Entries(reg[l]) \ Entries(reg.start[l])
Gone(l) == Entries(reg.start[l]) \ Entries(reg[l])

\* C37: the response and the error stage of a request read the list as it is
\* when the stage is reached: once the loop over the response interceptors
\* has run to its end it has invoked the entries the list holds then, in
\* their order, those registered while fetch was pending included and those
\* removed meanwhile not; the same holds for the error interceptors of a
\* request that failed with one pass of the chain and no throwing interceptor.
C37_LiveLists ==
  \A r \in Callers :
    LET q == rq[r]
    IN /\ RespDone(q) =>
            /\ q.apicoResponse[1].data.by = responseInterceptors
            /\ LogOf("response") = reg["response"]
            /\ Arrived("response") \subseteq Entries(LogOf("response"))
            /\ Gone("response") \cap Entries(LogOf("response")) = {}
       /\ (Settled(q) /\ q.error # None /\ ~q.ethrew /\ q.passes = 1) =>
            /\ q.thrown # None
            /\ q.thrown[1].tags = errorInterceptors
            /\ LogOf("error") = reg["error"]
            /\ Arrived("error") \subseteq Entries(LogOf("error"))
            /\ Gone("error") \cap Entries(LogOf("error")) = {}

\* a request started with one response interceptor; while fetch was pending
\* that one was removed and another function was registered; the response
\* the request returned went through the new one only
C37_Witness ==
  \E r \in Callers :
    /\ rq[r].returned # None
    /\ Len(reg.start["response"]) = 1
    /\ Gone("response") # {} /\ Arrived("response") # {}
    /\ Len(responseInterceptors) = 1
    /\ responseInterceptors # FnsOf(reg.start["response"])
    /\ rq[r].returned[1].data.by = responseInterceptors

\* ------------------------------------------------------------ two instances
\* The variables of the module are one instance, the default one or one made
\* by create/createClient; a second instance, made by another call of
\* createApicoInstance, is kept in pure.out. Interceptors are registered and
\* removed on both; requests are made through the first.
EmptyLists == [before |-> <<>>, response |-> <<>>, error |-> <<>>]

\* the state a call of createApicoInstance creates (core.ts:116-127)
Instance(defaultConfig) ==
  [defaults |-> createApicoInstance(defaultConfig), lists |-> EmptyLists]

\* a module whose three arrays are created once, outside createApicoInstance
SharesLists_Module == TRUE

\* whether two instances hold the same three arrays: each call of
\* createApicoInstance creates its own (core.ts:125-127)
SharesLists == FALSE

\* the three lists of this instance
ListsNow ==
  [before |-> beforeRequestInterceptors, response |-> responseInterceptors,
   error |-> errorInterceptors]

\* the three lists of this instance after the step
ListsNext ==
  [before |-> beforeRequestInterceptors', response |-> responseInterceptors',
   error |-> errorInterceptors']

\* the second instance
Other == pure.out[1]

InitInstances ==
  \E own \in DefaultConfigs, other \in DefaultConfigs :
    /\ Fresh(own)
    /\ pure = [op |-> "create",
               args |-> [own |-> own, other |-> other,
                         mine |-> EmptyLists, theirs |-> EmptyLists],
               out |-> Some(Instance(other))]

\* beforeRequest, onResponse, onError of this instance and the capabilities
\* they returned
OwnRegistry ==
  /\ Quiescent
  /\ Registry
  /\ pure' = [pure EXCEPT !.args.mine = ListsNext,
                          !.out = IF SharesLists
                                  THEN Some([@[1] EXCEPT !.lists = ListsNext])
                                  ELSE @]
  /\ UNCHANGED reg

\* the second instance with its lists replaced
OtherUpdate(after) ==
  /\ pure' = [pure EXCEPT !.args.theirs = after,
                          !.out = Some([@[1] EXCEPT !.lists = after])]
  /\ beforeRequestInterceptors' =
       IF SharesLists THEN after.before ELSE beforeRequestInterceptors
  /\ responseInterceptors' =
       IF SharesLists THEN after.response ELSE responseInterceptors
  /\ errorInterceptors' =
       IF SharesLists THEN after.error ELSE errorInterceptors
  /\ UNCHANGED <<rq, defaults, reg>>

\* beforeRequest, onResponse, onError of the second instance
OtherRegister(l, f) ==
  /\ nreg < MaxRegs
  /\ \A r \in Callers : Suspended(r)
  /\ OtherUpdate([Other.lists EXCEPT ![l] = Push(@, f)])
  /\ nreg' = nreg + 1

\* a capability returned by the second instance is called
OtherRemove(l, f) ==
  /\ \A r \in Callers : Suspended(r)
  /\ IndexOf(Other.lists[l], f) # 0
  /\ OtherUpdate([Other.lists EXCEPT ![l] = RemoveFrom(@, f)])
  /\ UNCHANGED nreg

NextInstances ==
  \/ OwnRegistry
  \/ \E l \in ListNames, f \in Fns : OtherRegister(l, f)
  \/ \E l \in ListNames, f \in Fns : OtherRemove(l, f)
  \/ \E r \in Callers :
       /\ rq[r].pc = "idle"
       /\ Start(r, <<>>, FALSE)
       /\ UNCHANGED <<reg, pure>>
  \/ (\E r \in Callers : PreInvoke(r)) /\ UNCHANGED <<reg, pure>>
  \/ (\E r \in Callers : PreResume(r, "return")) /\ UNCHANGED <<reg, pure>>
  \/ (\E r \in Callers : Send(r)) /\ UNCHANGED <<reg, pure>>
  \/ (\E r \in Callers, resp \in StageResponses : TransportResolve(r, resp))
       /\ UNCHANGED <<reg, pure>>
  \/ (\E r \in Callers : Finish(r)) /\ UNCHANGED <<reg, pure>>
  \/ (\E r \in Callers : RespInvoke(r)) /\ UNCHANGED <<reg, pure>>
  \/ (\E r \in Callers : RespResume(r, "return")) /\ UNCHANGED <<reg, pure>>
  \/ (\E r \in Callers : ErrInvoke(r)) /\ UNCHANGED <<reg, pure>>
  \/ (\E r \in Callers : ErrResume(r, "return")) /\ UNCHANGED <<reg, pure>>

SpecInstances == InitInstances /\ [][NextInstances]_vars

\* C38: two instances, the default one or made by create/createClient, are
\* isolated: each has the defaults made from its own config, the lists of
\* each hold what was registered on it and not removed from it, whatever was
\* registered on or removed from the other, and a request made through one
\* runs the interceptors of its own lists and no others.
C38_Isolated ==
  pure.op = "create" =>
    /\ defaults = createApicoInstance(pure.args.own)
    /\ Other.defaults = createApicoInstance(pure.args.other)
    /\ ListsNow = pure.args.mine
    /\ Other.lists = pure.args.theirs
    /\ \A r \in Callers :
         LET q == rq[r]
         IN /\ PreDone(q) => q.requestConfig[1].tags = pure.args.mine.before
            /\ RespDone(q) => q.apicoResponse[1].data.by = pure.args.mine.response
            /\ (Settled(q) /\ q.error # None) =>
                 q.thrown # None /\ q.thrown[1].tags = pure.args.mine.error

\* a request made through an instance with the response interceptor f has
\* returned a response that went through f, while the other instance, made
\* with another config, holds g in its response list
C38_Witness ==
  /\ pure.op = "create"
  /\ pure.args.own # pure.args.other
  /\ responseInterceptors = <<"f">>
  /\ beforeRequestInterceptors = <<>>
  /\ Other.lists.response = <<"g">>
  /\ \E r \in Callers :
       /\ rq[r].returned # None
       /\ rq[r].returned[1].data.by = <<"f">>
       /\ rq[r].requestConfig[1].tags = <<>>

====
